---- MODULE Spec2Model ----
(***************************************************************************)
(* Model of the meal-logging application's normalization pipeline:        *)
(* the transcribe-and-analyze edge function                                *)
(* (supabase/functions/transcribe-and-analyze/index.ts).                   *)
(*                                                                         *)
(* JavaScript strings are modelled as tuples of one-character strings, so  *)
(* that String.prototype.includes, the micronutrient regular expression    *)
(* and Object.entries over a string are computed character by character.   *)
(* JSON texts are modelled by their syntax trees ("documents"); JSON.parse *)
(* and JSON.stringify convert between documents and run-time values.       *)
(***************************************************************************)
EXTENDS Integers, Sequences, FiniteSets, TLC

VARIABLES
    env,          \* Deno.env: the value of OPENAI_API_KEY (fixed for the process)
    pc,           \* position of the request handler
    req,          \* the request being served
    text,         \* transcribedText
    content,      \* completion.choices?.[0]?.message?.content
    parsed,       \* the handler's local `parsed`
    result,       \* the handler's local `result` (before JSON.stringify)
    caught,       \* the error bound by the handler's catch block, if any
    response,     \* the Response returned by the handler
    calls,        \* number of calls made to each OpenAI capability for this request
    isOpen,            \* Dashboard: isRecording, passed to RecordingModal as isOpen
    showConfirmation,  \* Dashboard: showConfirmation
    analyzedItems,     \* Dashboard: analyzedItems
    isRecording,       \* RecordingModal: isRecording
    isProcessing,      \* RecordingModal: isProcessing
    mediaRecorderRef,  \* RecordingModal: mediaRecorderRef.current (0 is null)
    chunksRef,         \* RecordingModal: chunksRef.current
    captures,          \* one record per call of startRecording
    toasts,            \* titles of the toasts shown by the modals
    fetches,           \* the requests sent to the edge function
    user,              \* ConfirmationModal: useAuth().user
    editItems,         \* ConfirmationModal: editItems
    loading,           \* ConfirmationModal: loading
    inserting,         \* handleConfirm awaiting supabase.from('meals').insert(...)
    meals,             \* the rows of the meals table
    today,             \* Dashboard: meals, dayData, loading
    todayLoads,        \* the calls of loadTodayData awaiting their query
    history            \* HistoryPage: selectedDate, meals, daySummaries, loading,
                       \* and the runs of its effect awaiting their queries

\* the state of the edge function's handler
handlerVars == <<env, pc, req, text, content, parsed, result, caught, response, calls>>

\* the state of the Dashboard page and of its RecordingModal
modalVars ==
    <<isOpen, showConfirmation, analyzedItems, isRecording, isProcessing,
      mediaRecorderRef, chunksRef, captures, toasts, fetches>>

\* the state of ConfirmationModal, of the meals table and of what Dashboard
\* and HistoryPage read from it
confirmVars == <<user, editItems, loading, inserting, meals, today, todayLoads, history>>

vars == <<handlerVars, modalVars, confirmVars>>

---------------------------------------------------------------------------
(* Bounds of the model.                                                    *)

\* largest number of calls of startRecording in a session of the page
MaxCaptures == 2

\* largest number of items the confirmation form is grown to by addFoodItem
MaxEditItems == 2

\* largest number of rows the meals table holds when Dashboard is opened
MaxMeals == 2

\* largest number of calls of loadTodayData the user effect has in flight
MaxLoads == 1

\* largest number of dates selected on the history page
MaxSelections == 2

\* largest number of toasts kept
MaxToasts == 1

\* largest number of fields of a generated item object
MaxFields == 2
\* largest number of elements of a generated items array
MaxItems == 2

---------------------------------------------------------------------------
(* Characters and strings.                                                 *)

LowerLetters ==
    <<"a", "b", "c", "d", "e", "f", "g", "h", "i", "j", "k", "l", "m",
      "n", "o", "p", "q", "r", "s", "t", "u", "v", "w", "x", "y", "z">>

UpperLetters ==
    <<"A", "B", "C", "D", "E", "F", "G", "H", "I", "J", "K", "L", "M",
      "N", "O", "P", "Q", "R", "S", "T", "U", "V", "W", "X", "Y", "Z">>

Digits == <<"0", "1", "2", "3", "4", "5", "6", "7", "8", "9">>

Range(s) == {s[i] : i \in DOMAIN s}

\* String.prototype.includes(sub)
Includes(s, sub) ==
    \E i \in 1..(Len(s) - Len(sub) + 1) : SubSeq(s, i, i + Len(sub) - 1) = sub

\* Number.prototype.toString for a non-negative integer (array index keys)
RECURSIVE ToDecimal(_)
ToDecimal(n) ==
    IF n < 10 THEN <<Digits[n + 1]>>
    ELSE ToDecimal(n \div 10) \o <<Digits[(n % 10) + 1]>>

---------------------------------------------------------------------------
(* String literals of the source.                                          *)

K_qty == <<"q", "t", "y">>
K_n == <<"n">>
K_cal == <<"c", "a", "l">>
K_p == <<"p">>
K_c == <<"c">>
K_f == <<"f">>
K_fib == <<"f", "i", "b">>
K_items == <<"i", "t", "e", "m", "s">>
K_error == <<"e", "r", "r", "o", "r">>
K_file == <<"f", "i", "l", "e">>

KNOWN_KEYS == {K_qty, K_n, K_cal, K_p, K_c, K_f, K_fib}

MultipartFormData ==
    <<"m", "u", "l", "t", "i", "p", "a", "r", "t", "/",
      "f", "o", "r", "m", "-", "d", "a", "t", "a">>

MsgExpectedMultipart ==
    <<"E", "x", "p", "e", "c", "t", "e", "d", " ", "m", "u", "l", "t", "i",
      "p", "a", "r", "t", "/", "f", "o", "r", "m", "-", "d", "a", "t", "a",
      " ", "w", "i", "t", "h", " ", "a", " ", "'", "f", "i", "l", "e", "'",
      " ", "f", "i", "e", "l", "d">>

MsgNoAudioFile ==
    <<"N", "o", " ", "a", "u", "d", "i", "o", " ", "f", "i", "l", "e", " ",
      "p", "r", "o", "v", "i", "d", "e", "d", " ", "u", "n", "d", "e", "r",
      " ", "'", "f", "i", "l", "e", "'">>

MsgKeyNotSet ==
    <<"O", "P", "E", "N", "A", "I", "_", "A", "P", "I", "_", "K", "E", "Y",
      " ", "i", "s", " ", "n", "o", "t", " ", "s", "e", "t">>

MsgUnknownError ==
    <<"U", "n", "k", "n", "o", "w", "n", " ", "e", "r", "r", "o", "r">>

\* the units of the micronutrient pattern, as written in the regular expression
UnitAlternatives ==
    << <<"m", "g">>, <<"m", "c", "g">>, <<"i", "u">>, <<"g">>,
       <<"m", "g", "d", "L">>, <<"m", "m", "o", "l", "L">> >>

---------------------------------------------------------------------------
(* JSON documents and JavaScript values.                                   *)
(*                                                                         *)
(* A document is the syntax tree of a JSON text:                           *)
(*   null | bool | num (a number literal, here an integer) |               *)
(*   big (a number literal beyond the double range, such as 1e999) |       *)
(*   str | arr (sequence of documents) |                                   *)
(*   obj (sequence of <<key, document>> members, keys may repeat).         *)
(* A value is what the program holds at run time:                          *)
(*   undef | null | bool | num | inf (Infinity) | str | arr |              *)
(*   obj (sequence of <<key, value>> properties in insertion order,        *)
(*        keys distinct).                                                  *)

Undefined == [t |-> "undef"]
Null == [t |-> "null"]
Bool(b) == [t |-> "bool", bool |-> b]
Num(n) == [t |-> "num", num |-> n]
Big == [t |-> "big"]
Infinity == [t |-> "inf"]
Str(s) == [t |-> "str", str |-> s]
Arr(a) == [t |-> "arr", arr |-> a]
Obj(o) == [t |-> "obj", obj |-> o]

\* the typeof operator
TypeOf(v) ==
    CASE v.t = "undef" -> "undefined"
      [] v.t = "bool" -> "boolean"
      [] v.t \in {"num", "inf"} -> "number"
      [] v.t = "str" -> "string"
      [] OTHER -> "object"

\* own property lookup in a property list; Undefined when absent
Lookup(props, k) ==
    IF \E i \in DOMAIN props : props[i][1] = k
    THEN props[CHOOSE i \in DOMAIN props : props[i][1] = k][2]
    ELSE Undefined

\* obj[k] = v on a property list: overwrite in place, or append
SetProp(props, k, v) ==
    IF \E i \in DOMAIN props : props[i][1] = k
    THEN [i \in DOMAIN props |-> IF props[i][1] = k THEN <<k, v>> ELSE props[i]]
    ELSE Append(props, <<k, v>>)

RECURSIVE DefineMembers(_, _, _)
DefineMembers(props, members, i) ==
    IF i > Len(members) THEN props
    ELSE DefineMembers(SetProp(props, members[i][1], members[i][2]), members, i + 1)

\* JSON.parse on a syntactically valid text: an out-of-range number literal
\* becomes Infinity, a repeated key keeps its last value
RECURSIVE JSONParse(_)
JSONParse(d) ==
    CASE d.t = "big" -> Infinity
      [] d.t = "arr" -> Arr([i \in DOMAIN d.arr |-> JSONParse(d.arr[i])])
      [] d.t = "obj" ->
            Obj(DefineMembers(<<>>,
                    [i \in DOMAIN d.obj |-> <<d.obj[i][1], JSONParse(d.obj[i][2])>>], 1))
      [] OTHER -> d

\* JSON.stringify: a non-finite number is written as null
RECURSIVE JSONStringify(_)
JSONStringify(v) ==
    CASE v.t = "inf" -> Null
      [] v.t = "arr" -> Arr([i \in DOMAIN v.arr |-> JSONStringify(v.arr[i])])
      [] v.t = "obj" ->
            Obj([i \in DOMAIN v.obj |-> <<v.obj[i][1], JSONStringify(v.obj[i][2])>>])
      [] OTHER -> v

\* v.k for one of the keys the handler reads (items, qty, n, cal, p, c, f, fib):
\* defined for every value but null and undefined, where it throws a TypeError
GetProp(v, k) ==
    IF v.t = "obj" THEN Lookup(v.obj, k) ELSE Undefined

\* Object.entries(v): own enumerable string-keyed properties
ObjectEntries(v) ==
    CASE v.t = "obj" -> v.obj
      [] v.t = "arr" -> [i \in DOMAIN v.arr |-> <<ToDecimal(i - 1), v.arr[i]>>]
      [] v.t = "str" -> [i \in DOMAIN v.str |-> <<ToDecimal(i - 1), Str(<<v.str[i]>>)>>]
      [] OTHER -> <<>>

---------------------------------------------------------------------------
(* The micronutrient pattern /^[a-z]{1,4}_(mg|mcg|iu|g|mgdL|mmolL)$/i.     *)

\* Canonicalize of the regular expression semantics under the i flag
Canonicalize(ch) ==
    IF \E i \in DOMAIN LowerLetters : LowerLetters[i] = ch
    THEN UpperLetters[CHOOSE i \in DOMAIN LowerLetters : LowerLetters[i] = ch]
    ELSE ch

\* the largest repetition count of the quantifier {1,4}
MaxAbbr == 4

MicroPatternTest(k) ==
    LET \* the class [a-z] under the i flag
        ClassAZ(ch) == Canonicalize(ch) \in {Canonicalize(x) : x \in Range(LowerLetters)}
        \* a literal alternative matched against the whole rest of the input (up to $)
        LiteralMatch(s, lit) ==
            /\ Len(s) = Len(lit)
            /\ \A i \in DOMAIN lit : Canonicalize(s[i]) = Canonicalize(lit[i])
    IN  \E len \in 1..MaxAbbr :
            /\ Len(k) >= len + 1
            /\ \A j \in 1..len : ClassAZ(k[j])
            /\ k[len + 1] = "_"
            /\ \E a \in DOMAIN UnitAlternatives :
                  LiteralMatch(SubSeq(k, len + 2, Len(k)), UnitAlternatives[a])

---------------------------------------------------------------------------
(* Validation and cleaning of the parsed structure.                        *)

\* mutant of CopyKnown: the field is copied whatever its type
CopyKnownUntyped(cleaned, item, k, type) ==
    IF GetProp(item, k).t # "undef"
    THEN SetProp(cleaned, k, GetProp(item, k))
    ELSE cleaned

\* if (typeof item.k === type) cleaned.k = item.k
CopyKnown(cleaned, item, k, type) ==
    IF TypeOf(GetProp(item, k)) = type
    THEN SetProp(cleaned, k, GetProp(item, k))
    ELSE cleaned

\* mutant of IsMicronutrient: the key is not tested against the pattern
IsMicronutrientAnyKey(k, v) ==
    /\ k \notin KNOWN_KEYS
    /\ TypeOf(v) = "number"

\* the test that admits an entry of the item as a micronutrient
IsMicronutrient(k, v) ==
    /\ k \notin KNOWN_KEYS
    /\ TypeOf(v) = "number"
    /\ MicroPatternTest(k)

\* for (const [k, v] of Object.entries(item)) ...
RECURSIVE CopyMicronutrients(_, _, _)
CopyMicronutrients(cleaned, entries, i) ==
    IF i > Len(entries) THEN cleaned
    ELSE CopyMicronutrients(
             IF IsMicronutrient(entries[i][1], entries[i][2])
             THEN SetProp(cleaned, entries[i][1], entries[i][2])
             ELSE cleaned,
             entries, i + 1)

\* the callback of parsed.items.map, for an item that is neither null nor undefined
CleanItem(item) ==
    LET c1 == CopyKnown(<<>>, item, K_qty, "string")
        c2 == CopyKnown(c1, item, K_n, "string")
        c3 == CopyKnown(c2, item, K_cal, "number")
        c4 == CopyKnown(c3, item, K_p, "number")
        c5 == CopyKnown(c4, item, K_c, "number")
        c6 == CopyKnown(c5, item, K_f, "number")
        c7 == CopyKnown(c6, item, K_fib, "number")
    IN  Obj(CopyMicronutrients(c7, ObjectEntries(item), 1))

\* outcomes of a computation that may throw
Ok(v) == [ok |-> TRUE, val |-> v]
Throw(e) == [ok |-> FALSE, err |-> e]

\* the TypeError raised by reading property k of null
NullReadError(k) ==
    [isError |-> TRUE,
     message |->
       <<"C", "a", "n", "n", "o", "t", " ", "r", "e", "a", "d", " ", "p",
         "r", "o", "p", "e", "r", "t", "i", "e", "s", " ", "o", "f", " ",
         "n", "u", "l", "l", " ", "(", "r", "e", "a", "d", "i", "n", "g",
         " ", "'">>
       \o k \o <<"'", ")">>]

\* mutant of BuildResult: the other top-level fields of parsed are kept
BuildResultSpread(p) ==
    IF p.t = "null" THEN Throw(NullReadError(K_items))
    ELSE LET items == GetProp(p, K_items)
         IN  IF items.t = "arr"
             THEN IF \E i \in DOMAIN items.arr : items.arr[i].t = "null"
                  THEN Throw(NullReadError(K_qty))
                  ELSE Ok(Obj(SetProp(IF p.t = "obj" THEN p.obj ELSE <<>>, K_items,
                                  Arr([i \in DOMAIN items.arr |-> CleanItem(items.arr[i])]))))
             ELSE Ok(Obj(<< <<K_items, Arr(<<>>)>> >>))

\* const result = { items: Array.isArray(parsed.items) ? parsed.items.map(...) : [] }
BuildResult(p) ==
    IF p.t = "null" THEN Throw(NullReadError(K_items))
    ELSE LET items == GetProp(p, K_items)
         IN  IF items.t = "arr"
             THEN IF \E i \in DOMAIN items.arr : items.arr[i].t = "null"
                  THEN Throw(NullReadError(K_qty))
                  ELSE Ok(Obj(<< <<K_items,
                                   Arr([i \in DOMAIN items.arr |-> CleanItem(items.arr[i])])>> >>))
             ELSE Ok(Obj(<< <<K_items, Arr(<<>>)>> >>))

\* the contents a completion can carry: none (null or undefined), or a string
\* that is empty, is no JSON text, or is the JSON text of a document
NoContent == [c |-> "none"]
NotJSON == [c |-> "garbage"]
JSONText(d) == [c |-> "json", doc |-> d]

\* const raw = content || "{" + '"items"' + ": []}"
Raw(message) ==
    IF message.c \in {"none", "empty"}
    THEN JSONText(Obj(<< <<K_items, Arr(<<>>)>> >>))
    ELSE message

\* mutant of ParseRaw: the catch block leaves no usable structure behind
ParseRawNoFallback(r) ==
    IF r.c = "json" THEN JSONParse(r.doc) ELSE Null

\* try { parsed = JSON.parse(raw) } catch { parsed = { items: [] } }
ParseRaw(r) ==
    IF r.c = "json" THEN JSONParse(r.doc)
    ELSE Obj(<< <<K_items, Arr(<<>>)>> >>)

---------------------------------------------------------------------------
(* Requests and responses.                                                 *)

StatusOK == 200
StatusBadRequest == 400
StatusServerError == 500

\* new Response(null, { headers: corsHeaders })
EmptyResponse == [sent |-> TRUE, status |-> StatusOK, body |-> [json |-> FALSE]]

\* new Response(JSON.stringify(v), { status, headers })
JSONResponse(status, v) ==
    [sent |-> TRUE, status |-> status, body |-> [json |-> TRUE, doc |-> JSONStringify(v)]]

NoResponse == [sent |-> FALSE]

\* { error: message }
ErrorBody(message) == Obj(<< <<K_error, Str(message)>> >>)

\* mutant of CatchResponse: the message of the error is not passed on
CatchResponseGeneric(error) ==
    JSONResponse(StatusServerError, ErrorBody(MsgUnknownError))

\* the catch block of the handler
CatchResponse(error) ==
    LET message == IF error.isError THEN error.message ELSE MsgUnknownError
    IN  JSONResponse(StatusServerError, ErrorBody(message))

\* throw new Error(message); a TypeError of the runtime is an Error too
Error(message) == [isError |-> TRUE, message |-> message]

\* mutant of KeyMissing: only an unset variable counts as missing
KeyMissingUnsetOnly(key) == key.t = "undef"

\* mutant of IsBlob: the file check is dropped
IsBlobAny(entry) == TRUE

\* !OPENAI_API_KEY
KeyMissing(key) == key.t = "undef" \/ (key.t = "str" /\ key.str = <<>>)

\* req.headers.get("content-type") || ""
ContentType(r) == IF r.contentType.present THEN r.contentType.value ELSE <<>>

\* mutant of NotMultipart: only the presence of the header is tested
NotMultipartHeaderOnly(r) == ~r.contentType.present

\* !contentType.includes("multipart/form-data")
NotMultipart(r) == ~Includes(ContentType(r), MultipartFormData)

\* formData.get("file"): the first entry named file, or null
FormDataGet(fields, name) ==
    IF \E i \in DOMAIN fields : fields[i].name = name
    THEN fields[CHOOSE i \in DOMAIN fields :
                    /\ fields[i].name = name
                    /\ \A j \in 1..(i - 1) : fields[j].name # name]
    ELSE [name |-> name, kind |-> "null"]

\* mutant of IsBlob: any value under file is accepted
IsBlobTruthy(entry) == entry.kind # "null"

\* file instanceof Blob
IsBlob(entry) == entry.kind = "blob"

---------------------------------------------------------------------------
(* The environment: requests, and the outcomes of the awaited calls.       *)

CT_Multipart ==
    <<"m", "u", "l", "t", "i", "p", "a", "r", "t", "/", "f", "o", "r", "m",
      "-", "d", "a", "t", "a", ";", " ", "b", "o", "u", "n", "d", "a", "r",
      "y", "=", "x">>

CT_MultipartUpper ==
    <<"M", "u", "l", "t", "i", "p", "a", "r", "t", "/", "F", "o", "r", "m",
      "-", "D", "a", "t", "a", ";", " ", "b", "o", "u", "n", "d", "a", "r",
      "y", "=", "x">>

CT_Json ==
    <<"a", "p", "p", "l", "i", "c", "a", "t", "i", "o", "n", "/", "j", "s",
      "o", "n">>

HeaderAbsent == [present |-> FALSE]
Header(v) == [present |-> TRUE, value |-> v]

TextField(name) == [name |-> name, kind |-> "text"]
BlobField(name) == [name |-> name, kind |-> "blob"]

Undecodable == [decodes |-> FALSE]
FormBody(fields) == [decodes |-> TRUE, fields |-> fields]

\* requests: a body decodes as form data only under a multipart content type
Requests ==
    LET K_note == <<"n", "o", "t", "e">>
        CT_Note ==
            <<"t", "e", "x", "t", "/", "p", "l", "a", "i", "n", ";", " ", "n", "o",
              "t", "e", "=", "m", "u", "l", "t", "i", "p", "a", "r", "t", "/", "f",
              "o", "r", "m", "-", "d", "a", "t", "a">>
        \* the bodies that decode as form data
        FormBodies ==
            { <<>>,
              <<TextField(K_file)>>,
              <<BlobField(K_file)>>,
              <<BlobField(K_note)>>,
              <<TextField(K_file), BlobField(K_file)>>,
              <<TextField(K_note), BlobField(K_file)>> }
    IN  {[method |-> "OPTIONS", contentType |-> HeaderAbsent, body |-> Undecodable],
         [method |-> "GET", contentType |-> HeaderAbsent, body |-> Undecodable]}
        \cup {[method |-> "POST", contentType |-> h, body |-> Undecodable] :
                 h \in {HeaderAbsent, Header(<<>>), Header(CT_Json), Header(CT_Note),
                        Header(CT_Multipart), Header(CT_MultipartUpper)}}
        \cup {[method |-> "POST", contentType |-> h, body |-> FormBody(f)] :
                 h \in {Header(CT_Multipart), Header(CT_MultipartUpper)}, f \in FormBodies}

MsgBodyNotForm ==
    <<"B", "o", "d", "y", " ", "c", "a", "n", " ", "n", "o", "t", " ", "b",
      "e", " ", "d", "e", "c", "o", "d", "e", "d", " ", "a", "s", " ", "f",
      "o", "r", "m", " ", "d", "a", "t", "a">>

MsgTimeout ==
    <<"R", "e", "q", "u", "e", "s", "t", " ", "t", "i", "m", "e", "d", " ",
      "o", "u", "t", ".">>

\* the errors the OpenAI client throws are instances of Error
UpstreamErrors ==
    {Error(<<"C", "o", "n", "n", "e", "c", "t", "i", "o", "n", " ", "e", "r", "r",
             "o", "r", ".">>),
     Error(MsgTimeout)}

S_banana ==
    <<"a", " ", "b", "a", "n", "a", "n", "a">>

---------------------------------------------------------------------------
(* The outputs the structuring capability can return.                      *)

S_2slices == <<"2", " ", "s", "l", "i", "c", "e", "s">>
S_toast == <<"t", "o", "a", "s", "t">>
S_great == <<"g", "r", "e", "a", "t">>
S_160 == <<"1", "6", "0">>

K_k_mg == <<"k", "_", "m", "g">>
K_notes == <<"n", "o", "t", "e", "s">>
K_total == <<"t", "o", "t", "a", "l", "_", "c", "a", "l", "o", "r", "i", "e", "s">>

SeqsUpTo(S, n) == UNION {[1..k -> S] : k \in 0..n}

\* the item of the round-trip example
ExampleItem ==
    Obj(<< <<K_qty, Str(S_2slices)>>, <<K_n, Str(S_toast)>>, <<K_cal, Num(160)>>,
           <<K_p, Num(8)>>, <<K_c, Num(30)>>, <<K_f, Num(2)>>,
           <<K_k_mg, Num(200)>>, <<K_notes, Str(S_great)>> >>)

\* every known field with a value of another type
MistypedItem ==
    Obj(<< <<K_qty, Num(2)>>, <<K_n, Null>>, <<K_cal, Str(S_160)>>,
           <<K_p, Bool(TRUE)>>, <<K_c, Arr(<<Num(30)>>)>>, <<K_f, Obj(<<>>)>>,
           <<K_fib, Str(S_160)>>, <<K_k_mg, Num(200)>> >>)

SmallItems ==
    {Null, Num(5), Str(S_toast), Obj(<<>>), ExampleItem,
     Obj(<< <<K_notes, Str(S_great)>> >>),
     Obj(<< <<K_n, Str(S_toast)>>, <<K_cal, Str(S_160)>> >>),
     Obj(<< <<K_cal, Big>> >>)}

\* the items arrays: one element out of the generated item objects (at most
\* MaxFields members, a key may repeat), the one-member objects that probe
\* the micronutrient pattern and the field types, the elements that are no
\* objects and the two items above; and the arrays of small items
ItemArrays ==
    LET GenKeys == {K_qty, K_cal, K_fib, K_k_mg, K_notes}
        GenValues == {Str(S_160), Num(160), Big}
        GenItems == {Obj(m) : m \in SeqsUpTo(GenKeys \X GenValues, MaxFields)}
        ProbeKeys ==
            { <<"F", "E", "_", "M", "C", "G">>, <<"n", "a", "_", "m", "g", "d", "L">>,
              <<"c", "a", "_", "M", "M", "O", "L", "L">>, <<"v", "i", "t", "d", "_", "i", "u">>,
              <<"b", "_", "g">>, <<"Z", "n", "_", "M", "g">>,
              <<"a", "b", "c", "d", "e", "_", "m", "g">>, <<"k", "_", "k", "g">>,
              <<"_", "m", "g">>, <<"k", "1", "_", "m", "g">>, <<"k", "_", "m", "g", "x">>,
              <<"k", "_">>, <<"k", "m", "g">>, <<"k", "_", "m", "g", "_", "g">>,
              <<"Q", "T", "Y">>, <<" ", "k", "_", "m", "g">>, <<"0">> }
        ProbeValues ==
            {Num(200), Big, Str(S_great), Null, Bool(TRUE), Arr(<<Num(1)>>), Obj(<<>>)}
        ProbeItems ==
            {Obj(<< <<k, v>> >>) : k \in ProbeKeys \cup KNOWN_KEYS \cup {K_k_mg},
                                   v \in ProbeValues}
        PrimitiveItems ==
            {Null, Num(5), Big, Str(S_toast), Bool(FALSE), Arr(<<Num(1), Num(2)>>)}
    IN  {<<d>> : d \in GenItems \cup ProbeItems \cup PrimitiveItems
                       \cup {ExampleItem, MistypedItem}}
        \cup SeqsUpTo(SmallItems, MaxItems)

\* choices[0].message.content
CompletionContents ==
    LET
        \* documents of an unexpected shape
        ShapeDocs ==
            {Null, Num(5), Big, Str(S_toast), Bool(TRUE), Bool(FALSE),
             Arr(<<>>), Arr(<<ExampleItem>>),
             Obj(<<>>), Obj(<< <<K_total, Num(300)>> >>)}
            \cup {Obj(<< <<K_items, v>> >>) :
                     v \in {Null, Num(5), Str(S_toast), Bool(TRUE), Obj(<<>>),
                            Obj(<< <<<<"0">>, ExampleItem>>, <<<<"l", "e", "n", "g", "t", "h">>, Num(1)>> >>)}}
        \* documents with an items array, alone or next to other top-level fields
        ItemsDocs ==
            {Obj(<< <<K_items, Arr(a)>> >>) : a \in ItemArrays}
            \cup {Obj(<< <<K_items, Arr(a)>>, <<K_total, Num(300)>> >>) : a \in SeqsUpTo(SmallItems, MaxItems)}
            \cup {Obj(<< <<K_total, Num(300)>>, <<K_items, Arr(a)>> >>) : a \in SeqsUpTo(SmallItems, 1)}
            \cup {Obj(<< <<K_items, Arr(a)>>, <<K_items, Str(S_toast)>> >>) : a \in SeqsUpTo(SmallItems, 1)}
    IN  {NoContent, [c |-> "empty"], NotJSON} \cup {JSONText(d) : d \in ShapeDocs \cup ItemsDocs}

---------------------------------------------------------------------------
(* The request handler, one action per step between awaits.                *)

NoCalls == [transcriptions |-> 0, completions |-> 0]

\* a call of startRecording that has not happened yet
NoCapture ==
    [step |-> "unused", stream |-> "none", recorder |-> "none", blob |-> <<>>,
     outcome |-> "none"]

\* useState(false), useState(null), useRef(null), useRef([]) of Dashboard
\* and RecordingModal
ModalInit ==
    /\ isOpen = FALSE
    /\ showConfirmation = FALSE
    /\ analyzedItems = Null
    /\ isRecording = FALSE
    /\ isProcessing = FALSE
    /\ mediaRecorderRef = 0
    /\ chunksRef = <<>>
    /\ captures = [k \in 1..MaxCaptures |-> NoCapture]
    /\ toasts = <<>>
    /\ fetches = <<>>

\* mutant of CallTranscription: the transcription request is issued twice
CallTranscriptionTwice(c) == [c EXCEPT !.transcriptions = c.transcriptions + 2]

\* openai.audio.transcriptions.create(...) is called
CallTranscription(c) == [c EXCEPT !.transcriptions = c.transcriptions + 1]

\* openai.chat.completions.create(...) is called
CallCompletion(c) == [c EXCEPT !.completions = c.completions + 1]

\* no insert is awaited
NotInserting == [pending |-> FALSE]

\* useState of HistoryPage: selectedDate new Date(), meals [], daySummaries [],
\* loading true; no run of its effect, nothing written by console.error
NoHistory ==
    [selectedDate |-> "today", meals |-> <<>>, daySummaries |-> {}, loading |-> TRUE,
     loads |-> <<>>, selections |-> 0, logged |-> FALSE]

\* { calories: 0, protein: 0, carbs: 0, fat: 0, fiber: 0 }
NoDayData ==
    [calories |-> Num(0), protein |-> Num(0), carbs |-> Num(0), fat |-> Num(0),
     fiber |-> Num(0)]

\* useState([]), useState(false) of ConfirmationModal and useState of
\* Dashboard (meals [], dayData zeros, loading true); nobody is signed in
\* and the meals table is empty
ConfirmInit ==
    /\ user = Null
    /\ editItems = <<>>
    /\ loading = FALSE
    /\ inserting = NotInserting
    /\ meals = <<>>
    /\ today = [meals |-> <<>>, dayData |-> NoDayData, loading |-> TRUE]
    /\ todayLoads = <<>>
    /\ history = NoHistory

\* the edge function has been deployed and no request has arrived yet
HandlerInit ==
    /\ env \in {Undefined, Str(<<>>), Str(<<"s", "k", "-", "t", "e", "s", "t">>)}
    /\ pc = "idle"
    /\ req = [method |-> "none"]
    /\ text = Undefined
    /\ content = NoContent
    /\ parsed = Undefined
    /\ result = Undefined
    /\ caught = Undefined
    /\ response = NoResponse
    /\ calls = NoCalls

Init == HandlerInit /\ ModalInit /\ ConfirmInit

\* serve(async (req) => ...) up to the first await: the preflight answer, the
\* credential check and the content-type check
ReceiveRequest ==
    /\ pc = "idle"
    /\ \E r \in Requests :
        /\ req' = r
        /\ IF r.method = "OPTIONS"
           THEN response' = EmptyResponse /\ caught' = caught /\ pc' = "done"
           ELSE IF KeyMissing(env)
           THEN /\ caught' = Error(MsgKeyNotSet)
                /\ response' = CatchResponse(Error(MsgKeyNotSet))
                /\ pc' = "done"
           ELSE IF NotMultipart(r)
           THEN /\ response' = JSONResponse(StatusBadRequest, ErrorBody(MsgExpectedMultipart))
                /\ caught' = caught
                /\ pc' = "done"
           ELSE response' = response /\ caught' = caught /\ pc' = "formData"
    /\ UNCHANGED <<env, text, content, parsed, result, calls>>
    /\ UNCHANGED <<modalVars, confirmVars>>

\* await req.formData() settles; the file check; the transcription call starts
FormDataSettles ==
    /\ pc = "formData"
    /\ IF ~req.body.decodes
       THEN /\ caught' = Error(MsgBodyNotForm)
            /\ response' = CatchResponse(Error(MsgBodyNotForm))
            /\ pc' = "done"
            /\ calls' = calls
       ELSE IF ~IsBlob(FormDataGet(req.body.fields, K_file))
       THEN /\ response' = JSONResponse(StatusBadRequest, ErrorBody(MsgNoAudioFile))
            /\ caught' = caught
            /\ pc' = "done"
            /\ calls' = calls
       ELSE /\ response' = response
            /\ caught' = caught
            /\ pc' = "transcribing"
            /\ calls' = CallTranscription(calls)
    /\ UNCHANGED <<env, req, text, content, parsed, result>>
    /\ UNCHANGED <<modalVars, confirmVars>>

\* await openai.audio.transcriptions.create(...) resolves with a text;
\* the chat completion call starts
TranscriptionResolves ==
    /\ pc = "transcribing"
    /\ \E t \in {Undefined, Str(<<>>), Str(S_banana)} :
        text' = IF t.t = "undef" \/ t.str = <<>> THEN Str(<<>>) ELSE t
    /\ calls' = CallCompletion(calls)
    /\ pc' = "structuring"
    /\ UNCHANGED <<env, req, content, parsed, result, caught, response>>
    /\ UNCHANGED <<modalVars, confirmVars>>

\* await openai.audio.transcriptions.create(...) rejects
TranscriptionRejects ==
    /\ pc = "transcribing"
    /\ \E e \in UpstreamErrors : caught' = e /\ response' = CatchResponse(e)
    /\ pc' = "done"
    /\ UNCHANGED <<env, req, text, content, parsed, result, calls>>
    /\ UNCHANGED <<modalVars, confirmVars>>

\* await openai.chat.completions.create(...) resolves: parse, clean, respond
CompletionResolves ==
    /\ pc = "structuring"
    /\ \E m \in CompletionContents :
        /\ content' = m
        /\ parsed' = ParseRaw(Raw(m))
        /\ LET built == BuildResult(ParseRaw(Raw(m)))
           IN  IF built.ok
               THEN /\ result' = built.val
                    /\ caught' = caught
                    /\ response' = JSONResponse(StatusOK, built.val)
               ELSE /\ result' = result
                    /\ caught' = built.err
                    /\ response' = CatchResponse(built.err)
    /\ pc' = "done"
    /\ UNCHANGED <<env, req, text, calls>>
    /\ UNCHANGED <<modalVars, confirmVars>>

\* await openai.chat.completions.create(...) rejects
CompletionRejects ==
    /\ pc = "structuring"
    /\ \E e \in UpstreamErrors : caught' = e /\ response' = CatchResponse(e)
    /\ pc' = "done"
    /\ UNCHANGED <<env, req, text, content, parsed, result, calls>>
    /\ UNCHANGED <<modalVars, confirmVars>>

\* mutant of NextRequest: the structure parsed for the last request stays
NextRequestKeepsParsed ==
    /\ pc = "done"
    /\ pc' = "idle"
    /\ req' = [method |-> "none"]
    /\ text' = Undefined
    /\ content' = NoContent
    /\ result' = Undefined
    /\ caught' = Undefined
    /\ response' = NoResponse
    /\ calls' = NoCalls
    /\ UNCHANGED <<env, parsed>>
    /\ UNCHANGED <<modalVars, confirmVars>>

\* the response has been returned; the server takes the next request
NextRequest ==
    /\ pc = "done"
    /\ pc' = "idle"
    /\ req' = [method |-> "none"]
    /\ text' = Undefined
    /\ content' = NoContent
    /\ parsed' = Undefined
    /\ result' = Undefined
    /\ caught' = Undefined
    /\ response' = NoResponse
    /\ calls' = NoCalls
    /\ UNCHANGED env
    /\ UNCHANGED <<modalVars, confirmVars>>

Next ==
    \/ ReceiveRequest
    \/ FormDataSettles
    \/ TranscriptionResolves
    \/ TranscriptionRejects
    \/ CompletionResolves
    \/ CompletionRejects
    \/ NextRequest

Spec == Init /\ [][Next]_vars

---------------------------------------------------------------------------
(* Vocabulary of the properties.                                           *)

\* the handler has returned a success response that carries a JSON body
SuccessBody ==
    /\ pc = "done"
    /\ response.status = 200
    /\ response.body.json

\* the completion resolved and its content went through the parse step
Structured == pc = "done" /\ parsed.t # "undef"

\* the canonical empty result {"items": []}
EmptyItemsDoc == Obj(<< <<K_items, Arr(<<>>)>> >>)

\* the items array of a JSON object document, Undefined when it has none
ItemsOf(d) == IF d.t = "obj" THEN Lookup(d.obj, K_items) ELSE Undefined

AsciiLetters == Range(LowerLetters) \cup Range(UpperLetters)

\* ASCII lower-casing of a string
Fold(s) ==
    [i \in DOMAIN s |->
        IF \E j \in DOMAIN UpperLetters : UpperLetters[j] = s[i]
        THEN LowerLetters[CHOOSE j \in DOMAIN UpperLetters : UpperLetters[j] = s[i]]
        ELSE s[i]]

UnitSuffixes == {<<"m", "g">>, <<"m", "c", "g">>, <<"i", "u">>, <<"g">>, <<"m", "g", "d", "L">>, <<"m", "m", "o", "l", "L">>}

\* a key of the form <1 to 4 letters>_<unit>, letters and unit in either case
ShorthandUnitKey(k) ==
    \E n \in 1..4 :
        /\ Len(k) > n + 1
        /\ Range(SubSeq(k, 1, n)) \subseteq AsciiLetters
        /\ k[n + 1] = "_"
        /\ Fold(SubSeq(k, n + 2, Len(k))) \in {Fold(u) : u \in UnitSuffixes}

TextFields == {K_qty, K_n}
NumericFields == {K_cal, K_p, K_c, K_f, K_fib}

\* a field of a Food Item Record as it may appear in a JSON body
ValidBodyField(k, d) ==
    \/ k \in TextFields /\ d.t = "str"
    \/ k \in NumericFields /\ d.t = "num"
    \/ ShorthandUnitKey(k) /\ d.t = "num"

\* a field of an item that sanitization has to keep, on run-time values
ValidField(k, v) ==
    \/ k \in TextFields /\ TypeOf(v) = "string"
    \/ k \in NumericFields /\ TypeOf(v) = "number"
    \/ k \notin TextFields \cup NumericFields /\ ShorthandUnitKey(k) /\ TypeOf(v) = "number"

\* the fields an item carries
FieldsOf(v) == IF v.t = "obj" THEN v.obj ELSE <<>>

---------------------------------------------------------------------------
(* C1..C4: the shape of the response after the structuring step.           *)

\* C1: in every success response, every field of every item of the items
\* array is qty or n with a string value, cal, p, c, f or fib with a numeric
\* value, or a key matching the shorthand_unit pattern with a numeric value.
\* Refuted: a number literal beyond the double range is copied as Infinity
\* and serialised as null.
C1_ItemFieldsWellTyped ==
    SuccessBody =>
        LET items == ItemsOf(response.body.doc)
        IN  items.t = "arr" =>
                \A i \in DOMAIN items.arr :
                    /\ items.arr[i].t = "obj"
                    /\ \A j \in DOMAIN items.arr[i].obj :
                          ValidBodyField(items.arr[i].obj[j][1], items.arr[i].obj[j][2])

\* C2: whenever the structuring output parses as JSON with an items array,
\* the response is a success whose items array has the same length as the
\* parsed one, whatever its elements are (null included).
\* Refuted: a null element makes the handler answer with an error.
C2_NoItemDropped ==
    (Structured /\ content.c = "json" /\ ItemsOf(parsed).t = "arr") =>
        /\ response.status = 200
        /\ ItemsOf(response.body.doc).t = "arr"
        /\ Len(ItemsOf(response.body.doc).arr) = Len(ItemsOf(parsed).arr)

\* C3: whatever the structuring capability returned (non-JSON, or JSON of
\* an unexpected shape), the response is a success with a body {items: [...]}.
\* Refuted: JSON null, and an items array that contains null, end in an
\* error response.
C3_MalformedOutputAbsorbed ==
    Structured =>
        /\ response.status = 200
        /\ response.body.json
        /\ ItemsOf(response.body.doc).t = "arr"

\* C4: if the completion carries no content, or its content does not parse
\* as JSON, the response is a success whose body is exactly {"items": []}.
C4_ParseFailureGivesEmptyItems ==
    (Structured /\ content.c \in {"none", "empty", "garbage"}) =>
        /\ response.status = 200
        /\ response.body.json
        /\ response.body.doc = EmptyItemsDoc

\* C4 witness: a completion whose content is no JSON text has been answered
C4_Witness ==
    /\ Structured
    /\ content = NotJSON
    /\ response.status = 200
    /\ response.body.doc = EmptyItemsDoc

---------------------------------------------------------------------------
(* C5, C6: malformed requests.                                             *)

\* the service credential is configured
CredentialSet == env.t = "str" /\ env.str # <<>>

\* the media type of a content-type header value: the text before the first
\* semicolon, compared without regard to case
MediaTypeOf(ct) ==
    LET cut == IF \E i \in DOMAIN ct : ct[i] = ";"
               THEN (CHOOSE i \in DOMAIN ct :
                        ct[i] = ";" /\ \A j \in 1..(i - 1) : ct[j] # ";") - 1
               ELSE Len(ct)
    IN  Fold(SubSeq(ct, 1, cut))

\* the request declares the media type multipart/form-data
IsMultipartFormData(r) ==
    r.contentType.present /\ MediaTypeOf(r.contentType.value) = MultipartFormData

\* the request's content-type header contains the text multipart/form-data
MentionsMultipart(r) ==
    r.contentType.present /\ Includes(r.contentType.value, MultipartFormData)

\* the decoded form has no binary field named file
NoBinaryFile(body) ==
    /\ body.decodes
    /\ \A i \in DOMAIN body.fields :
          ~(body.fields[i].name = K_file /\ body.fields[i].kind = "blob")

ExpectedMultipartAnswer ==
    /\ response.status = 400
    /\ response.body.json
    /\ response.body.doc = Obj(<< <<K_error, Str(MsgExpectedMultipart)>> >>)

NoAudioFileAnswer ==
    /\ response.status = 400
    /\ response.body.json
    /\ response.body.doc = Obj(<< <<K_error, Str(MsgNoAudioFile)>> >>)

\* C5 as stated: every non-OPTIONS request whose content type is not
\* multipart form data is answered 400 "Expected multipart/form-data ...",
\* in every configuration, the credential being absent included.
C5_Original ==
    (pc = "done" /\ req.method # "OPTIONS" /\ ~IsMultipartFormData(req)) =>
        ExpectedMultipartAnswer

\* C5 amended: when the service credential is set, every non-OPTIONS request
\* whose content-type header does not contain the text multipart/form-data
\* is answered 400 with body {"error": "Expected multipart/form-data with a
\* 'file' field"}.
C5_NotMultipartRejected ==
    (pc = "done" /\ req.method # "OPTIONS" /\ CredentialSet /\ ~MentionsMultipart(req)) =>
        ExpectedMultipartAnswer

\* C5 witness: a JSON POST has been rejected while the credential is set
C5_Witness ==
    /\ pc = "done"
    /\ req.method = "POST"
    /\ req.contentType = Header(CT_Json)
    /\ CredentialSet
    /\ ExpectedMultipartAnswer

\* C6 as stated: every multipart request without a binary file field is
\* answered 400 "No audio file provided under 'file'".
C6_Original ==
    (pc = "done" /\ req.method # "OPTIONS" /\ IsMultipartFormData(req)
        /\ NoBinaryFile(req.body)) =>
        NoAudioFileAnswer

\* C6 amended: when the service credential is set, every non-OPTIONS request
\* whose content-type header contains the text multipart/form-data and whose
\* body decodes as form data without a binary file field is answered 400
\* with body {"error": "No audio file provided under 'file'"}.
C6_MissingFileRejected ==
    (pc = "done" /\ req.method # "OPTIONS" /\ CredentialSet /\ MentionsMultipart(req)
        /\ NoBinaryFile(req.body)) =>
        NoAudioFileAnswer

\* C6 witness: a form whose file field is plain text has been rejected
C6_Witness ==
    /\ pc = "done"
    /\ CredentialSet
    /\ req.contentType = Header(CT_Multipart)
    /\ req.body = FormBody(<<TextField(K_file)>>)
    /\ NoAudioFileAnswer

---------------------------------------------------------------------------
(* C7, C8: the cleaning of one item, on the handler's `result`.            *)

\* the cleaning step ran to its end on an items array
Cleaned ==
    /\ pc = "done"
    /\ result.t = "obj"
    /\ ItemsOf(parsed).t = "arr"

SourceItem(i) == ItemsOf(parsed).arr[i]
CleanedItem(i) == ItemsOf(result).arr[i]

\* the round-trip example without its notes field
ExampleCleaned ==
    Obj(<< <<K_qty, Str(S_2slices)>>, <<K_n, Str(S_toast)>>, <<K_cal, Num(160)>>,
           <<K_p, Num(8)>>, <<K_c, Num(30)>>, <<K_f, Num(2)>>, <<K_k_mg, Num(200)>> >>)

\* C7: sanitization keeps each valid field of an item with its value and
\* drops every other field; the example item comes out without notes.
C7_ValidFieldsPreserved ==
    Cleaned =>
        /\ ItemsOf(result).t = "arr"
        /\ DOMAIN ItemsOf(result).arr = DOMAIN ItemsOf(parsed).arr
        /\ \A i \in DOMAIN ItemsOf(parsed).arr :
              LET fields == FieldsOf(SourceItem(i))
                  out == CleanedItem(i)
              IN  /\ out.t = "obj"
                  /\ \A j \in DOMAIN fields :
                        IF ValidField(fields[j][1], fields[j][2])
                        THEN Lookup(out.obj, fields[j][1]) = fields[j][2]
                        ELSE Lookup(out.obj, fields[j][1]) = Undefined
                  /\ \A j \in DOMAIN out.obj :
                        \E h \in DOMAIN fields : fields[h] = out.obj[j]
                  /\ (SourceItem(i) = JSONParse(ExampleItem) => out = ExampleCleaned)

\* C7 witness: the example item has been cleaned
C7_Witness ==
    /\ Cleaned
    /\ ItemsOf(parsed).arr = <<JSONParse(ExampleItem)>>
    /\ ItemsOf(result).arr = <<ExampleCleaned>>

\* C8: a known field whose value has another type than expected is absent
\* from the cleaned item, while the item and its other valid fields stay.
C8_WrongTypeDropped ==
    Cleaned =>
        \A i \in DOMAIN ItemsOf(parsed).arr :
            LET fields == FieldsOf(SourceItem(i))
            IN  \A j \in DOMAIN fields :
                    (/\ fields[j][1] \in TextFields \cup NumericFields
                     /\ ~ValidField(fields[j][1], fields[j][2])) =>
                        /\ i \in DOMAIN ItemsOf(result).arr
                        /\ CleanedItem(i).t = "obj"
                        /\ Lookup(CleanedItem(i).obj, fields[j][1]) = Undefined
                        /\ \A h \in DOMAIN fields :
                              ValidField(fields[h][1], fields[h][2]) =>
                                  Lookup(CleanedItem(i).obj, fields[h][1]) = fields[h][2]

\* C8 witness: an item with every known field mistyped and one valid
\* micronutrient has been cleaned down to the micronutrient
C8_Witness ==
    /\ Cleaned
    /\ ItemsOf(parsed).arr = <<JSONParse(MistypedItem)>>
    /\ ItemsOf(result).arr = <<Obj(<< <<K_k_mg, Num(200)>> >>)>>

---------------------------------------------------------------------------
(* C9, C10: the response as a whole.                                       *)

\* C9: the body of a success response is an object with the single field
\* items, an array whose element i is the cleaned form of parsed item i.
C9_SingleItemsField ==
    SuccessBody =>
        LET doc == response.body.doc
        IN  /\ doc.t = "obj"
            /\ Len(doc.obj) = 1
            /\ doc.obj[1][1] = K_items
            /\ doc.obj[1][2].t = "arr"
            /\ ItemsOf(parsed).t = "arr" =>
                  /\ DOMAIN doc.obj[1][2].arr = DOMAIN ItemsOf(parsed).arr
                  /\ \A i \in DOMAIN ItemsOf(parsed).arr :
                        doc.obj[1][2].arr[i] = JSONStringify(CleanItem(SourceItem(i)))

\* C9 witness: a structure with a meal-level total and two different items
\* has been answered
C9_Witness ==
    /\ SuccessBody
    /\ parsed.t = "obj"
    /\ Lookup(parsed.obj, K_total) # Undefined
    /\ ItemsOf(parsed).t = "arr"
    /\ Len(ItemsOf(parsed).arr) = 2
    /\ SourceItem(1) # SourceItem(2)
    /\ CleanItem(SourceItem(1)) # CleanItem(SourceItem(2))

\* the transcription call or the structuring call was made and rejected
UpstreamFault ==
    /\ pc = "done"
    /\ calls.transcriptions = 1
    /\ parsed.t = "undef"

\* C10: after a failed transcription or structuring call the response is a
\* 500 whose body is {error: <message of the fault>}, without items.
C10_UpstreamFaultIsServerError ==
    UpstreamFault =>
        /\ caught \in UpstreamErrors
        /\ response.status = 500
        /\ response.body.json
        /\ response.body.doc = Obj(<< <<K_error, Str(caught.message)>> >>)
        /\ ItemsOf(response.body.doc) = Undefined
        /\ result = Undefined

\* C10 witness: the structuring call timed out and a 500 was returned
C10_Witness ==
    /\ UpstreamFault
    /\ calls.completions = 1
    /\ caught = Error(MsgTimeout)
    /\ response.status = 500

---------------------------------------------------------------------------
(* C11, C18, C19: which requests reach the two OpenAI capabilities.        *)

\* the response is a 500 whose JSON body has a non-empty error message
ServerErrorWithMessage ==
    /\ response.status = 500
    /\ response.body.json
    /\ response.body.doc.t = "obj"
    /\ Lookup(response.body.doc.obj, K_error).t = "str"
    /\ Lookup(response.body.doc.obj, K_error).str # <<>>

\* C11: while the service credential is absent no capability is ever
\* called, and every finished non-OPTIONS request has been answered 500 with
\* an error message (the message says the credential is not set).
C11_MissingCredentialIsServerError ==
    ~CredentialSet =>
        /\ calls = NoCalls
        /\ (pc = "done" /\ req.method # "OPTIONS") =>
              /\ ServerErrorWithMessage
              /\ response.body.doc = Obj(<< <<K_error, Str(MsgKeyNotSet)>> >>)

\* C11 witness: a well-formed upload was refused for lack of the credential
C11_Witness ==
    /\ pc = "done"
    /\ ~CredentialSet
    /\ req.method = "POST"
    /\ req.contentType = Header(CT_Multipart)
    /\ req.body = FormBody(<<BlobField(K_file)>>)
    /\ ServerErrorWithMessage
    /\ calls = NoCalls

\* the decoded form has a binary field named file
HasBinaryFile(body) ==
    /\ body.decodes
    /\ \E i \in DOMAIN body.fields :
          body.fields[i].name = K_file /\ body.fields[i].kind = "blob"

\* the request is not multipart form data or has no binary file field
Malformed(r) == ~IsMultipartFormData(r) \/ ~HasBinaryFile(r.body)

\* C18: while a non-OPTIONS request that is not multipart form data or has
\* no binary file field is being handled, and after it has been answered,
\* neither capability has been called; no 400 answer follows a call.
C18_MalformedRequestMakesNoCall ==
    /\ (req.method \notin {"none", "OPTIONS"} /\ Malformed(req)) => calls = NoCalls
    /\ (response.sent /\ response.status = 400) => calls = NoCalls

\* C18 witness: an upload whose file field is plain text was answered 400
C18_Witness ==
    /\ pc = "done"
    /\ CredentialSet
    /\ req.method = "POST"
    /\ req.contentType = Header(CT_Multipart)
    /\ req.body = FormBody(<<TextField(K_file)>>)
    /\ response.status = 400
    /\ calls = NoCalls

\* the request is multipart form data that carries a binary file field
WellFormed(r) == r.method = "POST" /\ IsMultipartFormData(r) /\ HasBinaryFile(r.body)

\* the request passes the handler's checks: the header contains the text
\* multipart/form-data and the first form field named file is binary
Validated(r) ==
    /\ r.method # "OPTIONS"
    /\ MentionsMultipart(r)
    /\ r.body.decodes
    /\ \E i \in DOMAIN r.body.fields :
          /\ r.body.fields[i].name = K_file
          /\ r.body.fields[i].kind = "blob"
          /\ \A j \in 1..(i - 1) : r.body.fields[j].name # K_file

\* C19 as stated: every well-formed request has had exactly one
\* transcription call by the time it is answered, in every configuration.
C19_Original ==
    (pc = "done" /\ WellFormed(req)) => calls.transcriptions = 1

\* C19 amended: when the service credential is set, every request that
\* passes validation has had exactly one transcription call by the time it
\* is answered; the structuring call has been made exactly once as soon as
\* the transcription has returned (an empty transcript included) and not at
\* all before that or when the transcription failed.
C19_TranscribeThenStructureOnce ==
    /\ (pc = "done" /\ CredentialSet /\ Validated(req)) => calls.transcriptions = 1
    /\ calls.transcriptions \in {0, 1}
    /\ calls.completions <= calls.transcriptions
    /\ calls.completions = (IF text.t = "undef" THEN 0 ELSE 1)
    /\ (pc = "done" /\ calls.transcriptions = 1 /\ text.t = "undef") =>
          (caught \in UpstreamErrors /\ calls.completions = 0)

\* C19 witness: the transcription returned no text and the structuring call
\* was made with the empty transcript
C19_Witness ==
    /\ pc = "structuring"
    /\ CredentialSet
    /\ Validated(req)
    /\ text = Str(<<>>)
    /\ calls = [transcriptions |-> 1, completions |-> 1]

\* C19, the failure path: the transcription was rejected and the request was
\* answered without a structuring call
C19_FailureReached ==
    /\ pc = "done"
    /\ calls = [transcriptions |-> 1, completions |-> 0]
    /\ caught \in UpstreamErrors

---------------------------------------------------------------------------
(* The recording flow: Dashboard opens RecordingModal; startRecording,     *)
(* stopRecording, processAudio and handleClose of RecordingModal.tsx, with *)
(* one action per event handler and per continuation after an await.       *)

TitleRecordingError == "Recording Error"
TitleProcessingError == "Processing Error"

\* !v
Falsy(v) ==
    \/ v.t \in {"undef", "null", "nan"}
    \/ v.t = "bool" /\ ~v.bool
    \/ v.t = "num" /\ v.num = 0
    \/ v.t = "str" /\ v.str = <<>>

\* Array.isArray(v)
IsArray(v) == v.t = "arr"

\* !(!result || !Array.isArray(result.items))
IsValidResult(v) == ~Falsy(v) /\ IsArray(GetProp(v, K_items))

\* result.items || []
ItemsOrEmpty(v) ==
    IF Falsy(GetProp(v, K_items)) THEN Arr(<<>>) ELSE GetProp(v, K_items)

\* mutant of CatchStartError: the failure is only logged
CatchStartErrorSilent(ts) == ts

\* the catch block of startRecording: toast "Recording Error"
CatchStartError(ts) == Append(ts, TitleRecordingError)

\* the catch block of processAudio: toast "Processing Error"
CatchProcessError(ts) == Append(ts, TitleProcessingError)

\* mutant of StopRecorder: the recorder is discarded, its events never fire
StopRecorderDiscard(state) == "inactive"

\* MediaRecorder.stop() on a recording recorder: the dataavailable and stop
\* events are queued
StopRecorder(state) == IF state = "recording" THEN "stopping" ELSE state

\* fetch(".../functions/v1/transcribe-and-analyze", {method: "POST", body: formData})
SendRequest(fs, k, b) == Append(fs, [capture |-> k, body |-> b])

\* stream.getTracks().forEach(track => track.stop())
StopTracks(c) == [c EXCEPT !.stream = "released"]

\* the responses of the edge function or of the gateway in front of it: a
\* 200 with a JSON body, a 200 whose body is not JSON, a non-2xx answer
FetchResponses ==
    LET \* the bodies a 200 response may carry
        ResultValues ==
            { Obj(<< <<K_items, Arr(<<ExampleItem>>)>> >>),
              Obj(<< <<K_items, Str(S_toast)>> >>),
              Obj(<<>>),
              Null }
    IN  {[ok |-> TRUE, parses |-> TRUE, val |-> v] : v \in ResultValues}
        \cup {[ok |-> TRUE, parses |-> FALSE, val |-> Undefined],
              [ok |-> FALSE, parses |-> TRUE, val |-> ErrorBody(MsgNoAudioFile)]}

\* Dashboard: the "Ready to Record" button
OpenModal ==
    /\ ~isOpen
    /\ ~showConfirmation
    /\ isOpen' = TRUE
    /\ UNCHANGED <<showConfirmation, analyzedItems, isRecording, isProcessing,
                   mediaRecorderRef, chunksRef, captures, toasts, fetches>>
    /\ UNCHANGED <<handlerVars, confirmVars>>

\* the microphone button while idle: startRecording up to await getUserMedia
StartRecording ==
    /\ isOpen
    /\ ~isProcessing
    /\ ~isRecording
    /\ \E k \in 1..MaxCaptures :
        /\ captures[k].step = "unused"
        /\ \A j \in 1..(k - 1) : captures[j].step # "unused"
        /\ captures' = [captures EXCEPT ![k].step = "acquiring"]
    /\ UNCHANGED <<isOpen, showConfirmation, analyzedItems, isRecording, isProcessing,
                   mediaRecorderRef, chunksRef, toasts, fetches>>
    /\ UNCHANGED <<handlerVars, confirmVars>>

\* getUserMedia resolves with a stream: the recorder is constructed and
\* started, or one of the two throws and the catch block runs
GetUserMediaResolves ==
    /\ \E k \in 1..MaxCaptures, o \in {"started", "constructorThrows", "startThrows"} :
        /\ captures[k].step = "acquiring"
        /\ IF o = "constructorThrows"
           THEN /\ captures' = [captures EXCEPT ![k] =
                       [@ EXCEPT !.stream = "live", !.step = "failed",
                                 !.outcome = "startError"]]
                /\ toasts' = CatchStartError(toasts)
                /\ UNCHANGED <<mediaRecorderRef, chunksRef, isRecording>>
           ELSE IF o = "startThrows"
           THEN /\ captures' = [captures EXCEPT ![k] =
                       [@ EXCEPT !.stream = "live", !.recorder = "inactive",
                                 !.step = "failed", !.outcome = "startError"]]
                /\ mediaRecorderRef' = k
                /\ chunksRef' = <<>>
                /\ toasts' = CatchStartError(toasts)
                /\ UNCHANGED isRecording
           ELSE /\ captures' = [captures EXCEPT ![k] =
                       [@ EXCEPT !.stream = "live", !.recorder = "recording",
                                 !.step = "recording"]]
                /\ mediaRecorderRef' = k
                /\ chunksRef' = <<>>
                /\ isRecording' = TRUE
                /\ UNCHANGED toasts
    /\ UNCHANGED <<isOpen, showConfirmation, analyzedItems, isProcessing, fetches>>
    /\ UNCHANGED <<handlerVars, confirmVars>>

\* getUserMedia rejects: the catch block of startRecording
GetUserMediaRejects ==
    /\ \E k \in 1..MaxCaptures :
        /\ captures[k].step = "acquiring"
        /\ captures' = [captures EXCEPT ![k] =
               [@ EXCEPT !.step = "failed", !.outcome = "denied"]]
    /\ toasts' = CatchStartError(toasts)
    /\ UNCHANGED <<isOpen, showConfirmation, analyzedItems, isRecording, isProcessing,
                   mediaRecorderRef, chunksRef, fetches>>
    /\ UNCHANGED <<handlerVars, confirmVars>>

\* stop() is called on a recorder that is not recording and throws
\* InvalidStateError (engines differ: newer ones return silently)
StopThrows(thrown) ==
    /\ mediaRecorderRef # 0
    /\ isRecording
    /\ captures[mediaRecorderRef].recorder # "recording"
    /\ thrown

\* stopRecording()
StopRecordingCall(thrown) ==
    IF mediaRecorderRef # 0 /\ isRecording /\ ~StopThrows(thrown)
    THEN /\ captures' = [captures EXCEPT ![mediaRecorderRef].recorder = StopRecorder(@)]
         /\ isRecording' = FALSE
         /\ isProcessing' = TRUE
    ELSE UNCHANGED <<captures, isRecording, isProcessing>>

\* the square button while recording: stopRecording()
StopRecording ==
    /\ isOpen
    /\ ~isProcessing
    /\ isRecording
    /\ \E thrown \in BOOLEAN : StopRecordingCall(thrown)
    /\ UNCHANGED <<isOpen, showConfirmation, analyzedItems, mediaRecorderRef,
                   chunksRef, toasts, fetches>>
    /\ UNCHANGED <<handlerVars, confirmVars>>

\* the dialog asks to close (escape, overlay, close button) or "Perhaps
\* another time" is pressed: handleClose()
HandleClose ==
    /\ isOpen
    /\ \E thrown \in BOOLEAN :
        IF isRecording
        THEN /\ StopRecordingCall(thrown)
             /\ isOpen' = IF StopThrows(thrown) THEN isOpen ELSE FALSE
        ELSE /\ isOpen' = FALSE
             /\ UNCHANGED <<captures, isRecording, isProcessing>>
    /\ UNCHANGED <<showConfirmation, analyzedItems, mediaRecorderRef, chunksRef,
                   toasts, fetches>>
    /\ UNCHANGED <<handlerVars, confirmVars>>

\* the task queued by MediaRecorder.stop(): ondataavailable pushes the data
\* when its size is positive, then onstop builds the blob and processAudio
\* runs up to await supabase.auth.getSession()
RecorderStops ==
    /\ \E k \in 1..MaxCaptures, hasData \in BOOLEAN :
        /\ captures[k].recorder = "stopping"
        /\ LET chunks == IF hasData THEN Append(chunksRef, k) ELSE chunksRef
           IN  /\ chunksRef' = chunks
               /\ captures' = [captures EXCEPT ![k] =
                      [@ EXCEPT !.recorder = "inactive", !.blob = chunks,
                                !.step = "session"]]
    /\ UNCHANGED <<isOpen, showConfirmation, analyzedItems, isRecording, isProcessing,
                   mediaRecorderRef, toasts, fetches>>
    /\ UNCHANGED <<handlerVars, confirmVars>>

\* getSession() resolves (it reports errors in its result and does not
\* reject); the request is sent
SessionResolves ==
    /\ \E k \in 1..MaxCaptures :
        /\ captures[k].step = "session"
        /\ fetches' = SendRequest(fetches, k, captures[k].blob)
        /\ captures' = [captures EXCEPT ![k].step = "fetch"]
    /\ UNCHANGED <<isOpen, showConfirmation, analyzedItems, isRecording, isProcessing,
                   mediaRecorderRef, chunksRef, toasts>>
    /\ UNCHANGED <<handlerVars, confirmVars>>

\* the catch block of processAudio for capture k, then the rest of onstop
ProcessAudioFails(k) ==
    /\ toasts' = CatchProcessError(toasts)
    /\ isProcessing' = FALSE
    /\ captures' = [captures EXCEPT ![k] =
           StopTracks([@ EXCEPT !.step = "done", !.outcome = "processError"])]
    /\ UNCHANGED <<isOpen, showConfirmation, analyzedItems>>

S_1serving == <<"1", " ", "s", "e", "r", "v", "i", "n", "g">>

\* { qty: '1 serving', n: '' }
BlankItem == Obj(<< <<K_qty, Str(S_1serving)>>, <<K_n, Str(<<>>)>> >>)

\* mutant of InitEditItems: an empty list is copied as it is
InitEditItemsAsGiven(items) ==
    IF items.t = "arr" THEN [i \in DOMAIN items.arr |-> Obj(ObjectEntries(items.arr[i]))]
    ELSE <<>>

\* the initialisation effect of the form:
\* Array.isArray(items) && items.length ? items.map(i => ({ ...i })) : [blank]
\* ({ ...i } is an object of the own entries of i)
InitEditItems(items) ==
    IF items.t = "arr" /\ Len(items.arr) > 0
    THEN [i \in DOMAIN items.arr |-> Obj(ObjectEntries(items.arr[i]))]
    ELSE <<BlankItem>>

\* fetch rejects (the network failed)
FetchRejects ==
    /\ \E k \in 1..MaxCaptures :
        /\ captures[k].step = "fetch"
        /\ ProcessAudioFails(k)
    /\ UNCHANGED <<isRecording, mediaRecorderRef, chunksRef, fetches>>
    /\ UNCHANGED <<handlerVars, confirmVars>>

\* fetch resolves with a response and its body is read (resp.text() or
\* resp.json() settles; nothing else reads or writes what this chain uses in
\* between): a valid result is handed to Dashboard.handleRecordingComplete
\* and the modal closes, and the effect of the confirmation form copies the
\* items; anything else goes to the catch block; then onstop releases the
\* stream
FetchResolves ==
    /\ \E k \in 1..MaxCaptures, r \in FetchResponses :
        /\ captures[k].step = "fetch"
        /\ IF r.ok /\ r.parses /\ IsValidResult(r.val)
           THEN /\ analyzedItems' = ItemsOrEmpty(r.val)
                /\ showConfirmation' = TRUE
                /\ isOpen' = FALSE
                /\ isProcessing' = FALSE
                /\ captures' = [captures EXCEPT ![k] =
                       StopTracks([@ EXCEPT !.step = "done",
                                            !.outcome = "delivered"])]
                /\ editItems' = InitEditItems(analyzedItems')
                /\ UNCHANGED toasts
           ELSE /\ ProcessAudioFails(k)
                /\ UNCHANGED editItems
    /\ UNCHANGED <<isRecording, mediaRecorderRef, chunksRef, fetches>>
    /\ UNCHANGED <<user, loading, inserting, meals, today, todayLoads, history>>
    /\ UNCHANGED handlerVars

\* the confirmation form is closed by its onClose
CloseConfirmation ==
    /\ showConfirmation
    /\ showConfirmation' = FALSE
    /\ UNCHANGED <<analyzedItems, isOpen, isRecording, isProcessing, mediaRecorderRef, chunksRef,
                   captures, toasts, fetches>>
    /\ UNCHANGED <<handlerVars, confirmVars>>

RecordingInit == HandlerInit /\ env = Undefined /\ ModalInit /\ ConfirmInit

RecordingNext ==
    \/ OpenModal
    \/ StartRecording
    \/ GetUserMediaResolves
    \/ GetUserMediaRejects
    \/ StopRecording
    \/ HandleClose
    \/ RecorderStops
    \/ SessionResolves
    \/ FetchResolves
    \/ FetchRejects
    \/ CloseConfirmation

SpecRecording == RecordingInit /\ [][RecordingNext]_vars

---------------------------------------------------------------------------
(* C12, C13, C14, C20: the recording flow.                                 *)

\* the number of requests sent for capture k
RequestsBy(fs, k) == Cardinality({i \in DOMAIN fs : fs[i].capture = k})

\* neither recording nor processing
ModalIdle == ~isRecording /\ ~isProcessing

\* C12: once a call of startRecording has left its exit path (its catch
\* block has run, or processAudio has finished), the stream it acquired is
\* no longer live.
C12_StreamReleasedOnEveryExit ==
    \A k \in 1..MaxCaptures :
        captures[k].step \in {"failed", "done"} => captures[k].stream # "live"

\* in this step getUserMedia rejects for capture k
DeviceRefused(k) ==
    captures[k].step = "acquiring" /\ captures'[k].outcome = "denied"

TransportFailed(k) ==
    captures[k].outcome # "processError" /\ captures'[k].outcome = "processError"

\* C14: a capture has sent exactly one request from the moment its fetch is
\* issued and none before; the step in which its request fails, or is
\* answered with a non-success status or an unusable body, shows the
\* "Processing Error" toast, does not call onRecordingComplete, sends
\* nothing, and leaves the modal idle (isRecording false, isProcessing
\* false).
C14_FailedTransportReturnsToIdle ==
    [][\A k \in 1..MaxCaptures :
          /\ RequestsBy(fetches', k) =
                (IF captures'[k].step \in {"fetch", "done"} THEN 1 ELSE 0)
          /\ TransportFailed(k) =>
                /\ toasts' = Append(toasts, TitleProcessingError)
                /\ fetches' = fetches
                /\ showConfirmation' = showConfirmation
                /\ analyzedItems' = analyzedItems
                /\ ~isProcessing'
                /\ ~isRecording']_vars

\* in this step handleClose closes the modal (no capture moves on)
Dismissed ==
    /\ isOpen
    /\ ~isOpen'
    /\ \A k \in 1..MaxCaptures : captures'[k].step = captures[k].step

C20_Delivered ==
    /\ showConfirmation
    /\ ~isOpen
    /\ captures[1].outcome = "delivered"
    /\ captures[2].step = "unused"
    /\ analyzedItems = Arr(<<ExampleItem>>)

---------------------------------------------------------------------------
(* The confirmation form: ConfirmationModal as Dashboard.tsx carries it    *)
(* (initialisation effect, updateItem, addFoodItem, removeFoodItem,        *)
(* computeTotals, handleConfirm) and Dashboard's handlers around it.       *)

NaN == [t |-> "nan"]

\* the value of a string of decimal digits
RECURSIVE DigitsValue(_)
DigitsValue(s) ==
    IF s = <<>> THEN 0
    ELSE 10 * DigitsValue(SubSeq(s, 1, Len(s) - 1))
         + (CHOOSE d \in 0..9 : Digits[d + 1] = s[Len(s)])

\* Number(v)
ToNumber(v) ==
    CASE v.t \in {"num", "inf", "nan"} -> v
      [] v.t = "null" -> Num(0)
      [] v.t = "bool" -> Num(IF v.bool THEN 1 ELSE 0)
      [] v.t = "str" ->
            IF Range(v.str) \subseteq Range(Digits) THEN Num(DigitsValue(v.str)) ELSE NaN
      [] OTHER -> NaN

\* mutant of Plus: the accumulator is overwritten
PlusOverwrite(a, b) == b

\* a + b on numbers
Plus(a, b) ==
    CASE a.t = "nan" \/ b.t = "nan" -> NaN
      [] a.t = "inf" \/ b.t = "inf" -> Infinity
      [] OTHER -> Num(a.num + b.num)

\* v || 0
OrZero(v) == IF Falsy(v) THEN Num(0) ELSE v

\* s.trim(), for the space character
RECURSIVE Trim(_)
Trim(s) ==
    IF s = <<>> THEN s
    ELSE IF Head(s) = " " THEN Trim(Tail(s))
    ELSE IF s[Len(s)] = " " THEN Trim(SubSeq(s, 1, Len(s) - 1))
    ELSE s

\* `${v}`
TemplateText(v) ==
    CASE v.t = "str" -> v.str
      [] v.t = "num" -> ToDecimal(v.num)
      [] v.t = "null" -> <<"n", "u", "l", "l">>
      [] OTHER -> <<"u", "n", "d", "e", "f", "i", "n", "e", "d">>

\* labels.filter(Boolean).join(', ')
RECURSIVE JoinLabels(_)
JoinLabels(labels) ==
    IF labels = <<>> THEN <<>>
    ELSE IF Head(labels) = <<>> THEN JoinLabels(Tail(labels))
    ELSE IF JoinLabels(Tail(labels)) = <<>> THEN Head(labels)
    ELSE Head(labels) \o <<",", " ">> \o JoinLabels(Tail(labels))

\* editItems.map(i => `${i.qty} ${i.n}`.trim()).filter(Boolean).join(', ')
MealName(list) ==
    JoinLabels([i \in DOMAIN list |->
                   Trim(TemplateText(GetProp(list[i], K_qty)) \o <<" ">>
                        \o TemplateText(GetProp(list[i], K_n)))])

\* mutant of IsAggregated: the key is not tested against KNOWN_KEYS
IsAggregatedAnyKey(k, v) == TypeOf(v) = "number"

\* the test of computeTotals: !KNOWN_KEYS.has(k) && typeof v === 'number'
IsAggregated(k, v) == k \notin KNOWN_KEYS /\ TypeOf(v) = "number"

\* the inner loop of computeTotals over Object.entries(it), from entry i on:
\* if (!KNOWN_KEYS.has(k) && typeof v === 'number')
\*     acc.micronutrients[k] = (acc.micronutrients[k] || 0) + v
RECURSIVE AggregateMicronutrients(_, _, _)
AggregateMicronutrients(micros, entries, i) ==
    IF i > Len(entries) THEN micros
    ELSE LET k == entries[i][1]
             v == entries[i][2]
         IN  IF IsAggregated(k, v)
             THEN AggregateMicronutrients(
                      SetProp(micros, k, Plus(OrZero(Lookup(micros, k)), v)),
                      entries, i + 1)
             ELSE AggregateMicronutrients(micros, entries, i + 1)

\* the reducer of computeTotals applied to one item
AddItem(acc, it) ==
    [total_calories |-> Plus(acc.total_calories, ToNumber(OrZero(GetProp(it, K_cal)))),
     protein |-> Plus(acc.protein, ToNumber(OrZero(GetProp(it, K_p)))),
     carbs |-> Plus(acc.carbs, ToNumber(OrZero(GetProp(it, K_c)))),
     fat |-> Plus(acc.fat, ToNumber(OrZero(GetProp(it, K_f)))),
     fiber |-> Plus(acc.fiber, ToNumber(OrZero(GetProp(it, K_fib)))),
     micronutrients |-> AggregateMicronutrients(acc.micronutrients, ObjectEntries(it), 1)]

\* list.reduce(reducer, acc), from item i on
RECURSIVE Reduce(_, _, _)
Reduce(acc, list, i) ==
    IF i > Len(list) THEN acc ELSE Reduce(AddItem(acc, list[i]), list, i + 1)

\* computeTotals(list): the reduction starts from zeros and an empty mapping
ComputeTotals(list) ==
    Reduce([total_calories |-> Num(0), protein |-> Num(0), carbs |-> Num(0),
            fat |-> Num(0), fiber |-> Num(0), micronutrients |-> <<>>],
           list, 1)

\* mutant of Invalid: only the name is tested
InvalidNameOnly(list) == \E i \in DOMAIN list : Falsy(GetProp(list[i], K_n))

\* editItems.some(it => !it.n || !it.qty)
Invalid(list) ==
    \E i \in DOMAIN list : Falsy(GetProp(list[i], K_n)) \/ Falsy(GetProp(list[i], K_qty))

\* the disabled test of the Confirm button: editItems.some(it => !it.n?.trim())
ConfirmDisabled(list) ==
    \E i \in DOMAIN list :
        LET name == GetProp(list[i], K_n)
        IN  name.t # "str" \/ Trim(name.str) = <<>>

\* mutant of MealRow: carbs and fat change places
MealRowSwapped(u, list, totals) ==
    [user_id |-> u.id, meal_name |-> MealName(list), description |-> MealName(list),
     total_calories |-> totals.total_calories, protein |-> totals.protein,
     carbs |-> totals.fat, fat |-> totals.carbs, fiber |-> totals.fiber,
     micronutrients |-> totals.micronutrients]

\* the row handed to supabase.from('meals').insert(...)
MealRow(u, list, totals) ==
    [user_id |-> u.id, meal_name |-> MealName(list), description |-> MealName(list),
     total_calories |-> totals.total_calories, protein |-> totals.protein,
     carbs |-> totals.carbs, fat |-> totals.fat, fiber |-> totals.fiber,
     micronutrients |-> totals.micronutrients]

TitleMissingDetails == "Missing details"
TitleMealRecorded == "Meal recorded with distinction"

\* items as the edge function returns them (100/5 and 200/10 are the
\* calories and protein of the aggregation example; a null is what
\* JSON.stringify leaves of a non-finite number; a key in upper case passes
\* the pattern test of the edge function; the name "great " ends with a
\* space)
ItemA ==
    Obj(<< <<K_qty, Str(S_2slices)>>, <<K_n, Str(S_toast)>>, <<K_cal, Num(100)>>,
           <<K_p, Num(5)>> >>)

ItemB ==
    Obj(<< <<K_qty, Str(S_1serving)>>, <<K_n, Str(S_banana)>>, <<K_cal, Num(200)>>,
           <<K_p, Num(10)>>, <<K_k_mg, Num(3)>> >>)

ItemC ==
    Obj(<< <<K_qty, Str(S_2slices)>>, <<K_n, Str(S_great \o <<" ">>)>>, <<K_cal, Null>>,
           <<K_c, Num(30)>>, <<K_f, Num(2)>>, <<K_fib, Num(2)>>, <<K_k_mg, Null>>,
           <<<<"F", "E", "_", "M", "C", "G">>, Num(4)>> >>)

\* handleManualEntry: [{ qty: '1 serving', n: manualEntry.trim() }]
ManualItem == Obj(<< <<K_qty, Str(S_1serving)>>, <<K_n, Str(S_toast)>> >>)

\* useAuth().user
SignedIn == [t |-> "user", id |-> "u1"]

\* the row of the meals table is of today unless it says otherwise
\* (logged_date date NOT NULL DEFAULT CURRENT_DATE)
LoggedDate(row) == IF "logged_date" \in DOMAIN row THEN row.logged_date ELSE "today"

\* select('*').eq('user_id', id).eq('logged_date', date)
\*     .order('logged_at', { ascending: false })
RowsOn(table, id, date) ==
    LET found == SelectSeq(table, LAMBDA row : row.user_id = id /\ LoggedDate(row) = date)
    IN  [i \in 1..Len(found) |-> found[Len(found) + 1 - i]]

\* mutant of AddMeal: the fat column is summed into carbs
AddMealSwapped(acc, meal) ==
    [calories |-> Plus(acc.calories, OrZero(ToNumber(meal.total_calories))),
     protein |-> Plus(acc.protein, OrZero(ToNumber(meal.protein))),
     carbs |-> Plus(acc.carbs, OrZero(ToNumber(meal.fat))),
     fat |-> Plus(acc.fat, OrZero(ToNumber(meal.fat))),
     fiber |-> Plus(acc.fiber, OrZero(ToNumber(meal.fiber)))]

\* the reducer of loadTodayData: acc.x + (Number(meal.x) || 0)
AddMeal(acc, meal) ==
    [calories |-> Plus(acc.calories, OrZero(ToNumber(meal.total_calories))),
     protein |-> Plus(acc.protein, OrZero(ToNumber(meal.protein))),
     carbs |-> Plus(acc.carbs, OrZero(ToNumber(meal.carbs))),
     fat |-> Plus(acc.fat, OrZero(ToNumber(meal.fat))),
     fiber |-> Plus(acc.fiber, OrZero(ToNumber(meal.fiber)))]

\* mealsData.reduce(reducer, zeros), from row i on
RECURSIVE DayTotals(_, _, _)
DayTotals(acc, mealsData, i) ==
    IF i > Len(mealsData) THEN acc
    ELSE DayTotals(AddMeal(acc, mealsData[i]), mealsData, i + 1)

\* useAuth: the session starts or ends; the effect of Dashboard on user calls
\* loadTodayData when somebody is signed in
AuthChanges ==
    /\ \E u \in {Null, SignedIn} :
        /\ u # user
        /\ user' = u
        /\ IF u = Null
           THEN UNCHANGED todayLoads
           ELSE /\ Cardinality({i \in DOMAIN todayLoads : ~todayLoads[i].toast}) < MaxLoads
                /\ todayLoads' = Append(todayLoads,
                                        [user_id |-> u.id, sent |-> Len(meals), toast |-> FALSE])
    /\ UNCHANGED <<editItems, loading, inserting, meals, today, history>>
    /\ UNCHANGED <<handlerVars, modalVars>>

\* Dashboard.handleRecordingComplete (with an empty result of the edge
\* function) or handleManualEntry opens the form; the form's effect copies
\* the items
ReceiveItems ==
    /\ ~showConfirmation
    /\ \E items \in {Arr(<<>>), Arr(<<ManualItem>>)} :
        /\ analyzedItems' = items
        /\ editItems' = InitEditItems(items)
    /\ showConfirmation' = TRUE
    /\ isOpen' = FALSE
    /\ UNCHANGED <<isRecording, isProcessing, mediaRecorderRef, chunksRef, captures,
                   toasts, fetches>>
    /\ UNCHANGED <<user, loading, inserting, meals, today, todayLoads, history>>
    /\ UNCHANGED handlerVars

\* updateItem(index, field, value) from a text input of the form: the
\* quantity is cleared or the name is typed
UpdateItem ==
    /\ showConfirmation
    /\ \E i \in DOMAIN editItems, ch \in {<<K_qty, Str(<<>>)>>, <<K_n, Str(S_toast)>>} :
        editItems' = [editItems EXCEPT ![i] = Obj(SetProp(@.obj, ch[1], ch[2]))]
    /\ UNCHANGED <<user, loading, inserting, meals, today, todayLoads, history>>
    /\ UNCHANGED <<handlerVars, modalVars>>

\* addFoodItem()
AddFoodItem ==
    /\ showConfirmation
    /\ Len(editItems) < MaxEditItems
    /\ editItems' = Append(editItems, BlankItem)
    /\ UNCHANGED <<user, loading, inserting, meals, today, todayLoads, history>>
    /\ UNCHANGED <<handlerVars, modalVars>>

\* removeFoodItem(index); the button is there when editItems.length > 1
RemoveFoodItem ==
    /\ showConfirmation
    /\ Len(editItems) > 1
    /\ \E i \in DOMAIN editItems :
        editItems' = SubSeq(editItems, 1, i - 1) \o SubSeq(editItems, i + 1, Len(editItems))
    /\ UNCHANGED <<user, loading, inserting, meals, today, todayLoads, history>>
    /\ UNCHANGED <<handlerVars, modalVars>>

\* the Confirm button: handleConfirm up to await insert(...)
HandleConfirm ==
    /\ showConfirmation
    /\ ~loading
    /\ ~ConfirmDisabled(editItems)
    /\ Len(toasts) + Cardinality({i \in DOMAIN todayLoads : todayLoads[i].toast}) < MaxToasts
    /\ IF user = Null
       THEN UNCHANGED <<toasts, loading, inserting>>
       ELSE IF Invalid(editItems)
       THEN /\ toasts' = Append(toasts, TitleMissingDetails)
            /\ UNCHANGED <<loading, inserting>>
       ELSE /\ loading' = TRUE
            /\ LET totals == ComputeTotals(editItems)
               IN  inserting' = [pending |-> TRUE, items |-> editItems,
                                 totals |-> totals,
                                 row |-> MealRow(user, editItems, totals)]
            /\ UNCHANGED toasts
    /\ UNCHANGED <<user, editItems, meals, today, todayLoads, history>>
    /\ UNCHANGED <<isOpen, showConfirmation, analyzedItems, isRecording, isProcessing,
                   mediaRecorderRef, chunksRef, captures, fetches>>
    /\ UNCHANGED handlerVars

\* mutant of InsertSettles: an error answer of the store is reported like a
\* thrown exception
InsertSettlesErrorBlocks ==
    /\ inserting.pending
    /\ \E o \in {"stored", "error", "throws"} :
        /\ meals' = IF o = "stored" THEN Append(meals, inserting.row) ELSE meals
        /\ toasts' = IF o = "stored" THEN toasts ELSE Append(toasts, TitleRecordingError)
        /\ IF o = "throws"
           THEN UNCHANGED <<showConfirmation, analyzedItems, todayLoads>>
           ELSE /\ showConfirmation' = FALSE
                /\ analyzedItems' = Null
                /\ todayLoads' = Append(todayLoads,
                                        [user_id |-> inserting.row.user_id,
                                         sent |-> Len(meals'), toast |-> TRUE])
    /\ loading' = FALSE
    /\ inserting' = NotInserting
    /\ UNCHANGED <<user, editItems, today, history>>
    /\ UNCHANGED <<isOpen, isRecording, isProcessing, mediaRecorderRef, chunksRef,
                   captures, fetches>>
    /\ UNCHANGED handlerVars

\* insert(...) settles: the row is stored, or the store answers with an
\* error (logged, not fatal), and onConfirm runs Dashboard.handleMealConfirmed
\* up to await loadTodayData() (the form closes, the query for today's meals
\* is sent); or the call throws and the catch block shows a toast; the
\* finally block resets loading
InsertSettles ==
    /\ inserting.pending
    /\ \E o \in {"stored", "error", "throws"} :
        /\ meals' = IF o = "stored" THEN Append(meals, inserting.row) ELSE meals
        /\ IF o = "throws"
           THEN /\ toasts' = Append(toasts, TitleRecordingError)
                /\ UNCHANGED <<showConfirmation, analyzedItems, todayLoads>>
           ELSE /\ showConfirmation' = FALSE
                /\ analyzedItems' = Null
                /\ todayLoads' = Append(todayLoads,
                                        [user_id |-> inserting.row.user_id,
                                         sent |-> Len(meals'), toast |-> TRUE])
                /\ UNCHANGED toasts
    /\ loading' = FALSE
    /\ inserting' = NotInserting
    /\ UNCHANGED <<user, editItems, today, history>>
    /\ UNCHANGED <<isOpen, isRecording, isProcessing, mediaRecorderRef, chunksRef,
                   captures, fetches>>
    /\ UNCHANGED handlerVars

\* the query of a call of loadTodayData settles: with the rows the table
\* held at some moment since the query was sent (the table only grows),
\* which become Dashboard's meals and are summed into dayData, or with an
\* error, which is logged; loading is reset; a call made by
\* handleMealConfirmed then shows the toast
TodayDataSettles ==
    /\ \E k \in DOMAIN todayLoads, ok \in BOOLEAN :
      \E seen \in todayLoads[k].sent..Len(meals) :
        LET mealsData == RowsOn(SubSeq(meals, 1, seen), todayLoads[k].user_id, "today")
        IN  /\ ok \/ seen = Len(meals)
            /\ today' = IF ok
                        THEN [meals |-> mealsData,
                              dayData |-> DayTotals(NoDayData, mealsData, 1),
                              loading |-> FALSE]
                        ELSE [today EXCEPT !.loading = FALSE]
            /\ toasts' = IF todayLoads[k].toast THEN Append(toasts, TitleMealRecorded)
                         ELSE toasts
            /\ todayLoads' = SubSeq(todayLoads, 1, k - 1)
                                 \o SubSeq(todayLoads, k + 1, Len(todayLoads))
    /\ UNCHANGED <<user, editItems, loading, inserting, meals, history>>
    /\ UNCHANGED <<isOpen, showConfirmation, analyzedItems, isRecording, isProcessing,
                   mediaRecorderRef, chunksRef, captures, fetches>>
    /\ UNCHANGED handlerVars

ConfirmSpecInit ==
    /\ HandlerInit
    /\ env = Undefined
    /\ ModalInit
    /\ user \in {Null, SignedIn}
    /\ editItems = <<>>
    /\ loading = FALSE
    /\ inserting = NotInserting
    /\ meals = <<>>
    /\ today = [meals |-> <<>>, dayData |-> NoDayData, loading |-> TRUE]
    /\ todayLoads = IF user = Null THEN <<>>
                    ELSE <<[user_id |-> user.id, sent |-> 0, toast |-> FALSE]>>
    /\ history = NoHistory

ConfirmNext ==
    \/ AuthChanges
    \/ ReceiveItems
    \/ UpdateItem
    \/ AddFoodItem
    \/ RemoveFoodItem
    \/ HandleConfirm
    \/ InsertSettles
    \/ CloseConfirmation

SpecConfirm == ConfirmSpecInit /\ [][ConfirmNext]_vars

---------------------------------------------------------------------------
(* Today's totals: Dashboard is opened by the signed-in user on a table    *)
(* that already holds rows, the form is open on an analysed item.          *)

\* Dashboard has been mounted, the query of its user effect is pending, and
\* Dashboard.handleRecordingComplete has opened the form on one item; the
\* table holds up to MaxMeals rows: of this user or another, of today or
\* yesterday, with numbers, nulls or text in their totals columns
TodaySpecInit ==
    /\ HandlerInit
    /\ env = Undefined
    /\ isOpen = FALSE
    /\ showConfirmation = TRUE
    /\ analyzedItems = Arr(<<ItemA>>)
    /\ editItems = InitEditItems(analyzedItems)
    /\ isRecording = FALSE
    /\ isProcessing = FALSE
    /\ mediaRecorderRef = 0
    /\ chunksRef = <<>>
    /\ captures = [k \in 1..MaxCaptures |-> NoCapture]
    /\ toasts = <<>>
    /\ fetches = <<>>
    /\ user = SignedIn
    /\ loading = FALSE
    /\ inserting = NotInserting
    /\ LET Stored(id, cal, p, f) ==
               [user_id |-> id, meal_name |-> S_toast, description |-> S_toast,
                total_calories |-> cal, protein |-> p, carbs |-> Num(30), fat |-> f,
                fiber |-> Num(2), micronutrients |-> <<>>]
           Rows == { Stored("u1", Num(100), Num(5), Num(2)),
                     Stored("u1", Null, Str(S_toast), Null),
                     Stored("u2", Num(100), Num(5), Num(2)),
                     [Stored("u1", Num(100), Num(5), Num(2)) EXCEPT !.fiber = Num(1)]
                         @@ [logged_date |-> "yesterday"] }
       IN  meals \in UNION {[1..n -> Rows] : n \in 0..MaxMeals}
    /\ today = [meals |-> <<>>, dayData |-> NoDayData, loading |-> TRUE]
    /\ todayLoads = <<[user_id |-> user.id, sent |-> Len(meals), toast |-> FALSE]>>
    /\ history = NoHistory

SpecToday ==
    TodaySpecInit
        /\ [][TodayDataSettles \/ ReceiveItems \/ HandleConfirm \/ InsertSettles]_vars

---------------------------------------------------------------------------
(* The history page: the signed-in user looks at today and at yesterday.   *)

\* loadHistorySummary: the rows grouped by date, each group with its number
\* of meals and its sums
DaySummaries(table, id) ==
    {[date |-> LoggedDate(table[i]),
      mealCount |-> Len(RowsOn(table, id, LoggedDate(table[i]))),
      sums |-> [DayTotals(NoDayData, RowsOn(table, id, LoggedDate(table[i])), 1)
                   EXCEPT !.fiber = Num(0)]] :
        i \in {j \in DOMAIN table : table[j].user_id = id}}

\* the run of the effect on [user, selectedDate] up to its await: loading is
\* set and the two queries are sent
LoadData(h, date) ==
    [h EXCEPT !.loading = TRUE,
              !.loads = Append(@, [date |-> date, meals |-> "pending", summary |-> "pending"])]

\* the calendar's onSelect: setSelectedDate(date), and the effect runs
SelectDate ==
    /\ history.selections < MaxSelections
    /\ \E date \in {"today", "yesterday"} :
        /\ date # history.selectedDate
        /\ history' = LoadData([history EXCEPT !.selectedDate = date,
                                               !.selections = @ + 1], date)
    /\ UNCHANGED <<user, editItems, loading, inserting, meals, today, todayLoads>>
    /\ UNCHANGED <<handlerVars, modalVars>>

\* a query of a run of the effect settles: loadMealsForDate sets the meals,
\* or loadHistorySummary the summaries, or the error is logged; when both
\* calls of the run have returned, Promise.all resolves and loading is reset
HistoryQuerySettles ==
    /\ \E k \in DOMAIN history.loads, q \in {"meals", "summary"}, ok \in BOOLEAN :
        LET load == history.loads[k]
            done == [load EXCEPT ![q] = "done"]
            both == done.meals = "done" /\ done.summary = "done"
        IN  /\ load[q] = "pending"
            /\ history' =
                  [history EXCEPT
                     !.meals = IF q = "meals" /\ ok
                               THEN RowsOn(meals, user.id, load.date) ELSE @,
                     !.daySummaries = IF q = "summary" /\ ok
                                      THEN DaySummaries(meals, user.id) ELSE @,
                     !.logged = IF ok THEN @ ELSE TRUE,
                     !.loading = IF both THEN FALSE ELSE @,
                     !.loads = IF both
                               THEN SubSeq(@, 1, k - 1) \o SubSeq(@, k + 1, Len(@))
                               ELSE [@ EXCEPT ![k] = done]]
    /\ UNCHANGED <<user, editItems, loading, inserting, meals, today, todayLoads>>
    /\ UNCHANGED <<handlerVars, modalVars>>

\* the page has been mounted by the signed-in user and its effect has run;
\* the table holds a row of today and rows of yesterday
HistoryInit ==
    /\ HandlerInit
    /\ env = Undefined
    /\ ModalInit
    /\ user = SignedIn
    /\ editItems = <<>>
    /\ loading = FALSE
    /\ inserting = NotInserting
    /\ LET Logged(date, cal) ==
               [user_id |-> user.id, meal_name |-> S_toast, description |-> S_toast,
                total_calories |-> cal, protein |-> Num(5), carbs |-> Num(30),
                fat |-> Num(2), fiber |-> Num(2), micronutrients |-> <<>>,
                logged_date |-> date]
       IN  meals \in {<<Logged("yesterday", Num(100)), Logged("today", Num(200))>>,
                      <<Logged("yesterday", Num(100)), Logged("yesterday", Null)>>}
    /\ today = [meals |-> <<>>, dayData |-> NoDayData, loading |-> TRUE]
    /\ todayLoads = <<>>
    /\ history = LoadData(NoHistory, "today")

SpecHistory == HistoryInit /\ [][SelectDate \/ HistoryQuerySettles]_vars

---------------------------------------------------------------------------
(* computeTotals on the items the edge function returns: the form is open  *)
(* on a list of analysed items, the signed-in user confirms it.            *)

\* the keys the form shows a micronutrient input for (micronutrientKeys)
MicronutrientKeys(list) ==
    {k \in UNION {{ObjectEntries(list[i])[j][1] : j \in DOMAIN ObjectEntries(list[i])} :
                    i \in DOMAIN list} :
        k \notin KNOWN_KEYS /\ MicroPatternTest(k)}

\* updateItem(index, key, Number(e.target.value)) from a micronutrient input
\* into which 160 is typed
UpdateMicronutrient ==
    /\ showConfirmation
    /\ \E i \in DOMAIN editItems, k \in MicronutrientKeys(editItems) :
        /\ editItems' = [editItems EXCEPT ![i] = Obj(SetProp(@.obj, k, ToNumber(Str(S_160))))]
        /\ editItems' # editItems
    /\ UNCHANGED <<user, loading, inserting, meals, today, todayLoads, history>>
    /\ UNCHANGED <<handlerVars, modalVars>>

\* the form after Dashboard.handleRecordingComplete handed it a list of one
\* to MaxEditItems of the items above
TotalsInit ==
    /\ HandlerInit
    /\ env = Undefined
    /\ isOpen = FALSE
    /\ showConfirmation = TRUE
    /\ \E list \in UNION {[1..n -> {ItemA, ItemB, ItemC}] : n \in 1..MaxEditItems} :
        /\ analyzedItems = Arr(list)
        /\ editItems = InitEditItems(Arr(list))
    /\ isRecording = FALSE
    /\ isProcessing = FALSE
    /\ mediaRecorderRef = 0
    /\ chunksRef = <<>>
    /\ captures = [k \in 1..MaxCaptures |-> NoCapture]
    /\ toasts = <<>>
    /\ fetches = <<>>
    /\ user = SignedIn
    /\ loading = FALSE
    /\ inserting = NotInserting
    /\ meals = <<>>
    /\ today = [meals |-> <<>>, dayData |-> NoDayData, loading |-> FALSE]
    /\ todayLoads = <<>>
    /\ history = NoHistory

SpecTotals == TotalsInit /\ [][UpdateMicronutrient \/ HandleConfirm \/ InsertSettles]_vars

---------------------------------------------------------------------------
(* C15, C16: the totals of a meal.                                         *)

\* what item it contributes to the sum of field k: its value when that is a
\* number, nothing otherwise
Contribution(it, k) ==
    IF GetProp(it, k).t = "num" THEN GetProp(it, k).num ELSE 0

\* the sum of field k over the items of list
RECURSIVE SumField(_, _)
SumField(list, k) ==
    IF list = <<>> THEN 0 ELSE Contribution(Head(list), k) + SumField(Tail(list), k)

\* the keys of the items of list
KeysOf(list) ==
    UNION {{ObjectEntries(list[i])[j][1] : j \in DOMAIN ObjectEntries(list[i])} :
             i \in DOMAIN list}

\* the micronutrient fields of list: the keys outside the seven fixed ones
\* that carry a number on some item
MicronutrientFields(list) ==
    {k \in KeysOf(list) \ KNOWN_KEYS : \E i \in DOMAIN list : GetProp(list[i], k).t = "num"}

\* C15: the totals computed for a confirmed list are the sums of cal, p, c,
\* f and fib over its items, a missing field counting 0; the items
\* cal 100, p 5 and cal 200, p 10 give total_calories 300 and protein 15
C15_TotalsAreSums ==
    inserting.pending =>
        /\ inserting.totals = ComputeTotals(inserting.items)
        /\ inserting.totals.total_calories = Num(SumField(inserting.items, K_cal))
        /\ inserting.totals.protein = Num(SumField(inserting.items, K_p))
        /\ inserting.totals.carbs = Num(SumField(inserting.items, K_c))
        /\ inserting.totals.fat = Num(SumField(inserting.items, K_f))
        /\ inserting.totals.fiber = Num(SumField(inserting.items, K_fib))
        /\ inserting.items = <<ItemA, ItemB>> =>
              /\ inserting.totals.total_calories = Num(300)
              /\ inserting.totals.protein = Num(15)

\* C15 witness: the example list is being saved, with the totals of the
\* example
C15_Witness ==
    /\ inserting.pending
    /\ inserting.items = <<ItemA, ItemB>>
    /\ inserting.row.total_calories = Num(300)
    /\ inserting.row.protein = Num(15)

\* C15, an item without calories: the null and the missing field count 0
C15_MissingCounted ==
    /\ inserting.pending
    /\ inserting.items = <<ItemC, ItemC>>
    /\ inserting.totals.total_calories = Num(0)
    /\ inserting.totals.protein = Num(0)
    /\ inserting.totals.fiber = Num(4)

\* C16: the merged micronutrient mapping of a confirmed list holds, for
\* each micronutrient field of the list, the sum of its values over the
\* items; every key of the mapping is on some item, none is one of the
\* seven fixed keys, and no key is there twice
C16_MicronutrientsAreMerged ==
    inserting.pending =>
        LET merged == inserting.totals.micronutrients
        IN  /\ \A k \in MicronutrientFields(inserting.items) :
                 Lookup(merged, k) = Num(SumField(inserting.items, k))
            /\ \A j \in DOMAIN merged :
                 /\ merged[j][1] \in KeysOf(inserting.items)
                 /\ merged[j][1] \notin KNOWN_KEYS
                 /\ \A h \in DOMAIN merged : merged[h][1] = merged[j][1] => h = j

\* C16 witness: potassium is 3 on both items, null on none, and the mapping
\* of the row holds the sum
C16_Witness ==
    /\ inserting.pending
    /\ inserting.items = <<ItemB, ItemB>>
    /\ inserting.row.micronutrients = << <<K_k_mg, Num(6)>> >>

---------------------------------------------------------------------------
(* C17: the life of a meal row.                                            *)

\* every item of list has a non-empty name and a non-empty quantity
ItemsComplete(list) ==
    \A i \in DOMAIN list :
        /\ GetProp(list[i], K_n).t = "str"
        /\ GetProp(list[i], K_n).str # <<>>
        /\ GetProp(list[i], K_qty).t = "str"
        /\ GetProp(list[i], K_qty).str # <<>>

\* C17: an insert into the meals table is issued only by a step of
\* handleConfirm, taken with a signed-in user on a form whose items all have
\* a non-empty name and a non-empty quantity, and it carries that user and
\* those items; the table changes only by the row of a pending insert being
\* added at its end, so that no row already there is changed or removed
C17_MealCreatedOnlyOnConfirmation ==
    [][/\ (inserting'.pending /\ inserting' # inserting) =>
             /\ HandleConfirm
             /\ showConfirmation
             /\ user # Null
             /\ ItemsComplete(editItems)
             /\ inserting'.items = editItems
             /\ inserting'.row.user_id = user.id
       /\ meals' # meals =>
             /\ inserting.pending
             /\ meals' = Append(meals, inserting.row)]_vars

\* C17 witness: the signed-in user confirmed the manual entry and its row
\* is the only row of the table
C17_Witness ==
    /\ user = SignedIn
    /\ ~showConfirmation
    /\ ~inserting.pending
    /\ \E i \in DOMAIN todayLoads : todayLoads[i].toast
    /\ Len(meals) = 1
    /\ meals[1].user_id = SignedIn.id
    /\ meals[1].meal_name = S_1serving \o <<" ">> \o S_toast

\* C17, the refusal: Confirm was pressed on an item without quantity; a
\* toast was shown and no insert was issued
C17_Refused ==
    /\ user = SignedIn
    /\ showConfirmation
    /\ Invalid(editItems)
    /\ ~ConfirmDisabled(editItems)
    /\ toasts = <<TitleMissingDetails>>
    /\ ~inserting.pending
    /\ meals = <<>>

---------------------------------------------------------------------------
(* C21: the case of the micronutrient keys.                                *)

\* a key of the form <1 to 4 lowercase letters>_<unit>, the unit written
\* exactly as one of mg, mcg, iu, g, mgdL, mmolL
LowercaseShorthandKey(k) ==
    \E n \in 1..4 :
        /\ Len(k) > n + 1
        /\ Range(SubSeq(k, 1, n)) \subseteq Range(LowerLetters)
        /\ k[n + 1] = "_"
        /\ SubSeq(k, n + 2, Len(k)) \in UnitSuffixes

\* C21: in every success response, every field of an item other than the
\* seven fixed ones is keyed by 1 to 4 lowercase letters, an underscore and
\* a unit spelled exactly mg, mcg, iu, g, mgdL or mmolL.
\* Refuted: the pattern is tested with the i flag, FE_MCG is kept.
C21_MicronutrientKeysLowercase ==
    SuccessBody =>
        LET items == ItemsOf(response.body.doc)
        IN  items.t = "arr" =>
                \A i \in DOMAIN items.arr :
                    items.arr[i].t = "obj" =>
                        \A j \in DOMAIN items.arr[i].obj :
                            \/ items.arr[i].obj[j][1] \in KNOWN_KEYS
                            \/ LowercaseShorthandKey(items.arr[i].obj[j][1])

---------------------------------------------------------------------------
(* C22, C23: the row written on confirmation.                              *)

C22_KeysPassTheTestOfTheCode ==
    \A r \in Range(meals) \cup (IF inserting.pending THEN {inserting.row} ELSE {}) :
        \A j \in DOMAIN r.micronutrients :
            /\ MicroPatternTest(r.micronutrients[j][1])
            /\ r.micronutrients[j][2].t = "num"

\* "<qty> <n>" of an item
QtyAndName(it) == GetProp(it, K_qty).str \o <<" ">> \o GetProp(it, K_n).str

\* s without the spaces at its ends
Stripped(s) ==
    LET inked == {i \in DOMAIN s : s[i] # " "}
    IN  IF inked = {} THEN <<>>
        ELSE SubSeq(s, CHOOSE i \in inked : \A j \in inked : i <= j,
                       CHOOSE i \in inked : \A j \in inked : i >= j)

\* the strings of labels in their order, ", " between two of them
RECURSIVE CommaJoined(_)
CommaJoined(labels) ==
    IF Len(labels) = 0 THEN <<>>
    ELSE IF Len(labels) = 1 THEN labels[1]
    ELSE labels[1] \o <<",", " ">> \o CommaJoined(Tail(labels))

\* the totals columns of row r are the totals t
CarriesTotals(r, t) ==
    /\ r.total_calories = t.total_calories
    /\ r.protein = t.protein
    /\ r.carbs = t.carbs
    /\ r.fat = t.fat
    /\ r.fiber = t.fiber
    /\ r.micronutrients = t.micronutrients

\* C23 as stated: the row built on confirmation is named by the "<qty> <n>"
\* strings of the edited items joined by ", ", described by the same text,
\* and carries the totals computeTotals returns for the edited items; the
\* row that reaches the table is that row.
\* Refuted: the name "great " loses its trailing space.
C23_Original ==
    [][/\ (inserting'.pending /\ ~inserting.pending) =>
             /\ inserting'.row.meal_name =
                    CommaJoined([i \in DOMAIN editItems |-> QtyAndName(editItems[i])])
             /\ inserting'.row.description = inserting'.row.meal_name
             /\ CarriesTotals(inserting'.row, ComputeTotals(editItems))
       /\ meals' # meals =>
             /\ meals'[Len(meals')].meal_name =
                    CommaJoined([i \in DOMAIN inserting.items |->
                                    QtyAndName(inserting.items[i])])
             /\ CarriesTotals(meals'[Len(meals')], ComputeTotals(inserting.items))]_vars

\* C23: the row built on confirmation is named by the "<qty> <n>" strings of
\* the edited items, each without the spaces at its ends, in item order and
\* joined by ", "; its description is the same text; its totals columns and
\* micronutrients are what computeTotals returns for the edited items at
\* that moment; the row that reaches the table is that row, whatever was
\* edited while the insert was pending
C23_RowIsBuiltFromEditedItems ==
    [][/\ (inserting'.pending /\ ~inserting.pending) =>
             /\ inserting'.items = editItems
             /\ inserting'.row.meal_name =
                    CommaJoined([i \in DOMAIN editItems |->
                                    Stripped(QtyAndName(editItems[i]))])
             /\ inserting'.row.description = inserting'.row.meal_name
             /\ CarriesTotals(inserting'.row, ComputeTotals(editItems))
       /\ meals' # meals =>
             /\ meals'[Len(meals')].meal_name =
                    CommaJoined([i \in DOMAIN inserting.items |->
                                    Stripped(QtyAndName(inserting.items[i]))])
             /\ meals'[Len(meals')].description = meals'[Len(meals')].meal_name
             /\ CarriesTotals(meals'[Len(meals')], ComputeTotals(inserting.items))]_vars

\* C23 witness: the row of toast and a banana is in the table, named
\* "2 slices toast, 1 serving a banana", while the form list was edited
\* after the confirmation
C23_Witness ==
    /\ Len(meals) = 1
    /\ meals[1].meal_name = S_2slices \o <<" ">> \o S_toast \o <<",", " ">>
                                \o S_1serving \o <<" ">> \o S_banana
    /\ meals[1].description = meals[1].meal_name
    /\ meals[1].total_calories = Num(300)
    /\ meals[1].micronutrients = << <<K_k_mg, Num(3)>> >>
    /\ editItems # <<ItemA, ItemB>>

\* C23, the trimmed name: the row of the item named "great " is being saved
C23_Trimmed ==
    /\ inserting.pending
    /\ inserting.items = <<ItemC>>
    /\ inserting.row.meal_name = S_2slices \o <<" ">> \o S_great

---------------------------------------------------------------------------
(* The list of the open form                                               *)

C28_OpenedOnNothing ==
    /\ showConfirmation
    /\ analyzedItems = Arr(<<>>)
    /\ editItems = <<BlankItem>>

---------------------------------------------------------------------------
(* Cleaning twice                                                          *)

\* C29, the cleaning step alone: cleaning an item the handler has cleaned
\* returns that item
C29_CleanedItemIsFixed ==
    Cleaned => \A i \in DOMAIN ItemsOf(result).arr : CleanItem(CleanedItem(i)) = CleanedItem(i)

\* C29: cleaning an item the handler has cleaned returns the same item, and
\* the items of a success response, parsed and put through the validation and
\* cleaning step again, give a response identical to the first.
\* Refuted: a field the handler copied as Infinity is null in the response,
\* and null is dropped the second time.
C29_SanitizationIdempotent ==
    (SuccessBody /\ result.t = "obj") =>
        /\ \A i \in DOMAIN ItemsOf(result).arr :
              CleanItem(CleanedItem(i)) = CleanedItem(i)
        /\ LET again == BuildResult(JSONParse(response.body.doc))
           IN  /\ again.ok
               /\ JSONResponse(StatusOK, again.val) = response

---------------------------------------------------------------------------
(* One request after another                                               *)

\* the response the handler gives to the request req when it is the only one
\* the server ever gets: decided by the request, the credential env and what
\* the two upstream calls made for it returned (an error caught, or the
\* completion content)
ServedAlone ==
    IF req.method = "OPTIONS" THEN EmptyResponse
    ELSE IF KeyMissing(env)
    THEN JSONResponse(StatusServerError, ErrorBody(MsgKeyNotSet))
    ELSE IF NotMultipart(req)
    THEN JSONResponse(StatusBadRequest, ErrorBody(MsgExpectedMultipart))
    ELSE IF ~req.body.decodes
    THEN JSONResponse(StatusServerError, ErrorBody(MsgBodyNotForm))
    ELSE IF ~IsBlob(FormDataGet(req.body.fields, K_file))
    THEN JSONResponse(StatusBadRequest, ErrorBody(MsgNoAudioFile))
    ELSE IF content = NoContent /\ parsed.t = "undef"
    THEN JSONResponse(StatusServerError,
             ErrorBody(IF caught.isError THEN caught.message ELSE MsgUnknownError))
    ELSE LET built == BuildResult(ParseRaw(Raw(content)))
         IN  IF built.ok THEN JSONResponse(StatusOK, built.val)
             ELSE JSONResponse(StatusServerError, ErrorBody(built.err.message))

---------------------------------------------------------------------------
(* One stream at a time                                                    *)

\* C25: the recording modal holds at most one audio stream at a time (the
\* streams left live by a failed start, which C12 is about, are not
\* counted), and a recorder that is recording is the one mediaRecorderRef
\* refers to, so that the stop button reaches it.
\* Refuted: the record button starts a second getUserMedia call while the
\* first is pending; both resolve, and the first recorder keeps recording
\* its live stream with nothing referring to it.
C25_AtMostOneStream ==
    /\ Cardinality({k \in 1..MaxCaptures :
                       captures[k].stream = "live" /\ captures[k].step # "failed"}) <= 1
    /\ \A k \in 1..MaxCaptures :
          captures[k].recorder = "recording" => mediaRecorderRef = k

\* C25, the start request while recording is in progress: the button then
\* calls stopRecording, so no call of startRecording begins while
\* isRecording is true
C25_NoStartWhileRecording ==
    [][\A k \in 1..MaxCaptures :
          (captures[k].step = "unused" /\ captures'[k].step = "acquiring") =>
              ~isRecording /\ ~isProcessing]_vars

---------------------------------------------------------------------------
(* After the insert: the form, the toasts and today's totals               *)

\* in this step a call of loadTodayData made by handleMealConfirmed begins
ReloadBegins ==
    /\ Len(todayLoads') = Len(todayLoads) + 1
    /\ todayLoads'[Len(todayLoads')].toast
    /\ SubSeq(todayLoads', 1, Len(todayLoads)) = todayLoads

\* in this step the call k of loadTodayData ends
LoadEnds(k) ==
    /\ k \in DOMAIN todayLoads
    /\ todayLoads' = SubSeq(todayLoads, 1, k - 1) \o SubSeq(todayLoads, k + 1, Len(todayLoads))

\* C27: when the insert settles, loading is false again whatever the
\* outcome. Unless the call threw, no error toast is shown, the form closes
\* and handleMealConfirmed runs, whether the row went into the table or the
\* store answered with an error; the call of loadTodayData it awaits then
\* ends with the "Meal recorded" toast. Only a thrown exception shows the
\* "Recording Error" toast, and then the form stays and nothing else happens.
C27_FailedInsertDoesNotBlock ==
    [][/\ (inserting.pending /\ ~inserting'.pending) =>
             /\ ~loading'
             /\ meals' \in {meals, Append(meals, inserting.row)}
             /\ IF toasts' = toasts
                THEN /\ ~showConfirmation'
                     /\ analyzedItems' = Null
                     /\ ReloadBegins
                ELSE /\ toasts' = Append(toasts, TitleRecordingError)
                     /\ meals' = meals
                     /\ UNCHANGED <<showConfirmation, analyzedItems, todayLoads>>
       /\ \A k \in DOMAIN todayLoads :
             (LoadEnds(k) /\ todayLoads[k].toast) =>
                 toasts' = Append(toasts, TitleMealRecorded)]_vars

\* C27 witness: the table was empty, the store answered the insert with an
\* error: the table is still empty, the form is closed, loading is false and
\* the only toast is "Meal recorded"
C27_Witness ==
    /\ meals = <<>>
    /\ ~showConfirmation
    /\ ~loading
    /\ ~inserting.pending
    /\ todayLoads = <<>>
    /\ toasts = <<TitleMealRecorded>>

\* C27, the thrown exception: the form is still open, loading is false and
\* the only toast is "Recording Error"
C27_Thrown ==
    /\ meals = <<>>
    /\ showConfirmation
    /\ ~loading
    /\ ~inserting.pending
    /\ toasts = <<TitleRecordingError>>

\* what a totals column of a row counts for: its value when it is a number
ColumnNumber(v) == IF v.t = "num" THEN v.num ELSE 0

\* the sum of the column col over rows
RECURSIVE ColumnSum(_, _)
ColumnSum(rows, col) ==
    IF rows = <<>> THEN 0 ELSE ColumnNumber(Head(rows)[col]) + ColumnSum(Tail(rows), col)

\* row belongs to the signed-in user and to today
OwnToday(row) ==
    /\ row.user_id = user.id
    /\ "logged_date" \in DOMAIN row => row.logged_date = "today"

\* shown holds exactly the rows of the signed-in user and of today among the
\* first n rows of the table
ShowsRowsUpTo(shown, n) ==
    /\ \A j \in DOMAIN shown : OwnToday(shown[j])
    /\ Len(shown) = Cardinality({i \in 1..n : OwnToday(meals[i])})
    /\ \A i \in 1..n : OwnToday(meals[i]) => \E j \in DOMAIN shown : shown[j] = meals[i]

\* C30: dayData always holds, for calories, protein, carbs, fat and fiber,
\* the sum of that column over the meals Dashboard holds, a column that is
\* not a number counting 0 (all zeros when it holds none); a step of
\* loadTodayData that changes them leaves exactly the rows the table held
\* for the signed-in user and today at some moment. The "Meal recorded"
\* toast is not shown in the step that closes the form but in the step in
\* which the call of loadTodayData made after the insert ends: unless its
\* query failed, Dashboard then holds the rows the table has held since the
\* insert settled.
C30_TodayTotals ==
    [][/\ today'.dayData =
              [calories |-> Num(ColumnSum(today'.meals, "total_calories")),
               protein |-> Num(ColumnSum(today'.meals, "protein")),
               carbs |-> Num(ColumnSum(today'.meals, "carbs")),
               fat |-> Num(ColumnSum(today'.meals, "fat")),
               fiber |-> Num(ColumnSum(today'.meals, "fiber"))]
       /\ today'.meals = <<>> => today'.dayData = NoDayData
       /\ today'.meals # today.meals =>
             /\ ~today'.loading
             /\ \E n \in 0..Len(meals) : ShowsRowsUpTo(today'.meals, n)
       /\ ReloadBegins =>
             /\ toasts' = toasts
             /\ todayLoads'[Len(todayLoads')].sent = Len(meals')
       /\ (toasts' # toasts /\ toasts'[Len(toasts')] = TitleMealRecorded) =>
             \E k \in DOMAIN todayLoads :
                 /\ LoadEnds(k)
                 /\ todayLoads[k].toast
                 /\ \/ today' = [today EXCEPT !.loading = FALSE]
                    \/ \E n \in todayLoads[k].sent..Len(meals) :
                           ShowsRowsUpTo(today'.meals, n)]_vars

\* C30 witness: the table held a row of 100 kcal and 5 g protein and a row
\* whose calories are null and whose protein is text; the item of 100 kcal
\* and 5 g was confirmed: the toast is shown, Dashboard holds the three rows,
\* the new one first, and the totals are 200 kcal and 10 g
C30_Witness ==
    /\ toasts = <<TitleMealRecorded>>
    /\ Len(today.meals) = 3
    /\ today.meals[1].meal_name = S_2slices \o <<" ">> \o S_toast
    /\ today.meals[2].total_calories = Null
    /\ today.meals[2].protein = Str(S_toast)
    /\ today.dayData.calories = Num(200)
    /\ today.dayData.protein = Num(10)
    /\ today.dayData.fiber = Num(4)

\* C30, nothing returned: the table holds only a row of another user and a
\* row of yesterday; the query has answered and the totals are all zero
C30_NothingReturned ==
    /\ Len(meals) = 2
    /\ meals[1].user_id # user.id
    /\ "logged_date" \in DOMAIN meals[2]
    /\ ~today.loading
    /\ todayLoads = <<>>
    /\ today.meals = <<>>
    /\ today.dayData = NoDayData

---------------------------------------------------------------------------
(* The history page and its late answers                                   *)

\* when loading has finished, no meals query for the selected date is
\* pending, and unless an error was logged the displayed meals are the rows
\* of the selected date
ShowsSelectedDate ==
    ~history.loading =>
        /\ \A k \in DOMAIN history.loads :
              ~(history.loads[k].date = history.selectedDate
                    /\ history.loads[k].meals = "pending")
        /\ ~history.logged =>
              history.meals = RowsOn(meals, user.id, history.selectedDate)

C26_OneRunAtATime == history.selections = 0 => ShowsSelectedDate

\* C26, the late answer: no query is pending, no error was logged, yesterday
\* is selected and the meals shown are those of today
C26_Overwritten ==
    /\ history.loads = <<>>
    /\ ~history.loading
    /\ ~history.logged
    /\ history.selectedDate = "yesterday"
    /\ history.meals # <<>>
    /\ \A j \in DOMAIN history.meals : history.meals[j].logged_date = "today"

====
